---- MODULE Spec2Model ----
(***************************************************************************)
(* A model of the eventbus library: the bus (include/eventbus/bus.h), its  *)
(* event queue (queue.h), its dispatchers (dispatcher.h), the tagged event *)
(* container (event.h) and the subscription handle (subscription.h).       *)
(*                                                                         *)
(* Threads take one step at a time.  A step is one atomic load or store,   *)
(* or one critical section (lock, body, unlock).  A critical section is    *)
(* split where the code keeps the mutex across something another thread    *)
(* can observe: a handler invocation of the inline sweep, and the gap of a *)
(* condition-variable wait between the predicate's check and the sleep.    *)
(***************************************************************************)
EXTENDS Naturals, Sequences, FiniteSets, TLC

(***************************************************************************)
(* Bounds of the model.                                                    *)
(***************************************************************************)
MaxSubs == 2
MaxEvents == 1
MaxPublishes == 2
MaxShutdowns == 1
BusQueueN == 1
QueueN == 2
MaxPushes == 3
MaxUnits == 2

Clients == {"c1", "c2"}
Workers == {"w1"}
PoolWorkers == {"w1", "w2"}
Threads == Clients \cup PoolWorkers
NoThread == "none"

Types == {"A", "B"}
\* What an invocation of a user's handler does: it returns, or it throws a
\* std::exception, or it throws something else.
Outcomes == {"returns", "std_exception", "other"}
Slots == 1..MaxSubs
Null == <<>>
\* An event: the active alternative of the variant, and what the properties
\* need to know of its publish (its number, the type it was published as, the
\* subscriptions that were gone when its publish started).
NoEvent == [type |-> "monostate", seq |-> 0, ptype |-> "monostate", gone |-> {}]

(***************************************************************************)
(* policy.h: the policies a bus or queue is instantiated with.             *)
(***************************************************************************)
ExecutionPolicies == {"Synchronous", "Asynchronous"}
BackpressurePolicies == {"BlockProducer", "DropOldest", "DropNewest"}
UnboundedQueue == [bounded |-> FALSE, capacity |-> 0]
BoundedQueue(N) == [bounded |-> TRUE, capacity |-> N]

VARIABLES
  cfg,                \* template arguments: [exec, queue, bp]
  shutdown_,          \* EventBus::shutdown_
  next_id_,           \* EventBus::next_id_
  handlers_,          \* EventBus::handlers_: type -> (id -> wrapper)
  subscription_map_,  \* EventBus::subscription_map_: id -> type
  handlers_mutex_,    \* EventBus::handlers_mutex_: the thread that holds it
  unsubscribe_func_,  \* Subscription::unsubscribe_func_ of each handle: <<id>> or Null
  queue_,             \* EventQueue::queue_
  queue_shutdown_,    \* EventQueue::shutdown_
  queue_mutex_,       \* EventQueue::mutex_: the thread that holds it
  queue_cv_,          \* EventQueue::cv_: the threads asleep on it
  tasks_,             \* the dispatcher's tasks_: the queued units, oldest first
  disp_shutdown_,     \* the dispatcher's shutdown_
  tasks_mutex_,       \* SingleThreadDispatcher::mutex_
  tasks_cv_,          \* SingleThreadDispatcher::cv_: the workers asleep on it
  pc,                 \* each thread's position
  loc,                \* each thread's locals
  ret,                \* what the step just taken returned to its caller, if it returned
  call,               \* the handler invocation the step just taken made, if it made one
  hist                \* history: counters and sets the properties refer to

busVars == <<shutdown_, next_id_, handlers_, subscription_map_, handlers_mutex_,
             unsubscribe_func_>>
queueVars == <<queue_, queue_shutdown_, queue_mutex_, queue_cv_>>
dispVars == <<tasks_, disp_shutdown_, tasks_mutex_, tasks_cv_>>
vars == <<cfg, shutdown_, next_id_, handlers_, subscription_map_, handlers_mutex_,
          unsubscribe_func_, queue_, queue_shutdown_, queue_mutex_, queue_cv_,
          tasks_, disp_shutdown_, tasks_mutex_, tasks_cv_, pc, loc, ret, call,
          hist>>

(***************************************************************************)
(* Small helpers.                                                          *)
(***************************************************************************)
Empty == <<>>
Without(f, k) == [x \in DOMAIN f \ {k} |-> f[x]]
Range(s) == {s[i] : i \in DOMAIN s}
Last(s, n) == SubSeq(s, Len(s) - n + 1, Len(s))
Min(a, b) == IF a < b THEN a ELSE b

\* A thread's locals: the event in hand, the wrappers found for it (snap),
\* those still to call (todo), the subscriptions called so far (done), and
\* for the properties: who called (caller), whether the call started after a
\* shutdown had returned (after), whether the thread was inside push's wait
\* when the queue was shut down (blocked), the live subscriptions at the
\* moment of the lookup (live), whether a handler called for this event has
\* thrown (failed).
NoLoc == [ev |-> NoEvent, snap |-> {}, todo |-> {}, done |-> Empty, live |-> {},
          failed |-> FALSE, caller |-> "none", after |-> FALSE, blocked |-> FALSE,
          arg |-> Null]
NoRet == [op |-> "none"]
NoCall == [w |-> Null, e |-> NoEvent, outcome |-> "none", prior |-> FALSE]

(***************************************************************************)
(* event.h: the tagged container.  Constructing an Event from a T value    *)
(* makes T the active alternative; visit hands the visitor that one.       *)
(***************************************************************************)
\* WrapEvent that makes the first alternative active whatever the value.
WrapEventFirst(T) == "A"

WrapEvent(T) == T
visit(e) == e.type

(***************************************************************************)
(* bus.h: the registry.                                                    *)
(***************************************************************************)
type_index(T) == T

\* HandlerWrapper<EventType, Handler>, made by subscribe; owner names the
\* subscription it was made for.
HandlerWrapper(T, id) == [etype |-> T, owner |-> id]

\* HandlerWrapper::call: the user's handler runs iff the visited alternative is
\* the wrapper's EventType.
HandlerWrapperCall(w, e) == visit(e) = w.etype

\* handlers_[type_index][id] = wrapper
HandlersInsert(h, ty, id, w) ==
  IF ty \in DOMAIN h THEN [h EXCEPT ![ty] = (id :> w) @@ h[ty]]
  ELSE (ty :> (id :> w)) @@ h

\* HandlersErase that erases nothing.
HandlersEraseNothing(h, ty, id) == h

\* HandlersErase that erases the type's whole map.
HandlersEraseType(h, ty, id) == IF ty \in DOMAIN h THEN Without(h, ty) ELSE h

\* HandlersErase that leaves a type's map in place when it is left empty.
HandlersEraseLeavesEmpty(h, ty, id) ==
  IF ty \in DOMAIN h THEN [h EXCEPT ![ty] = Without(h[ty], id)] ELSE h

\* The body of unsubscribe / unsubscribe_internal for an id subscription_map_
\* holds: erase the id from its type's map, erase the type's map when it is
\* left empty.
HandlersErase(h, ty, id) ==
  IF ty \in DOMAIN h
  THEN LET m == Without(h[ty], id)
       IN IF DOMAIN m = {} THEN Without(h, ty) ELSE [h EXCEPT ![ty] = m]
  ELSE h

\* The lookup of publish and process_events: the wrappers registered under
\* the type_index of the event's active alternative.
MatchingHandlers(h, e) ==
  IF type_index(visit(e)) \in DOMAIN h
  THEN {h[type_index(visit(e))][id] : id \in DOMAIN h[type_index(visit(e))]}
  ELSE {}

\* Iterating an unordered_map: the standard leaves the order open, so any of
\* the wrappers not yet visited may come next.
IterationNext(todo) == todo

\* The catch clauses around handler->call in process_events:
\* catch (const std::exception &) and catch (...).
Throws(o) == o # "returns"

\* Catches without the catch (...) clause.
CatchesStdOnly(o) == o = "std_exception"

Catches(o) == o = "std_exception" \/ Throws(o)

Owners(ws) == {w.owner : w \in ws}

\* The live subscriptions (history) to events published as type T.
LiveFor(T) == {s.id : s \in {x \in hist.live : x.T = T}}

(***************************************************************************)
(* Thread bookkeeping.                                                     *)
(***************************************************************************)
Goto(t, l) == pc' = [pc EXCEPT ![t] = l]
Return(t, r) == /\ pc' = [pc EXCEPT ![t] = "idle"]
                /\ loc' = [loc EXCEPT ![t] = NoLoc]
                /\ ret' = r
NoReturn == ret' = NoRet
NoInvoke == call' = NoCall
Idle(t) == pc[t] = "idle"

\* IsShutdown for a bus whose calls do not look at the flag.
IsShutdownNotRead == FALSE

\* shutdown_.load(): the check subscribe and publish start with, and what
\* active() returns the negation of.
IsShutdown == shutdown_

(***************************************************************************)
(* EventBus::subscribe<EventType>(handler)                                 *)
(***************************************************************************)
SubscribeCall(t, T) ==
  /\ Idle(t)
  /\ hist' = [hist EXCEPT !.subcalls = @ + 1]
  /\ IF IsShutdown
     THEN Return(t, [op |-> "subscribe", valid |-> FALSE,
                     after |-> hist.sd_returned])
     ELSE /\ Goto(t, "sub_lock")
          /\ loc' = [loc EXCEPT ![t] = [NoLoc EXCEPT
                       !.arg = [T |-> T, slot |-> hist.subcalls + 1],
                       !.after = hist.sd_returned]]
          /\ NoReturn
  /\ NoInvoke
  /\ UNCHANGED <<cfg, busVars, queueVars, dispVars>>

\* NewId that takes the number of registrations for the id.
NewIdFromSize == Cardinality(DOMAIN subscription_map_)

\* The value next_id_.fetch_add(1) returns.
NewId == next_id_

SubscribeLocked(t) ==
  /\ pc[t] = "sub_lock"
  /\ handlers_mutex_ = NoThread
  /\ LET id == NewId
         a == loc[t].arg
     IN /\ next_id_' = next_id_ + 1
        /\ handlers_' = HandlersInsert(handlers_, type_index(a.T), id,
                                       HandlerWrapper(a.T, id))
        /\ subscription_map_' = (id :> type_index(a.T)) @@ subscription_map_
        /\ unsubscribe_func_' = [unsubscribe_func_ EXCEPT ![a.slot] = <<id>>]
        /\ hist' = [hist EXCEPT !.live = @ \cup {[id |-> id, T |-> a.T]}]
        /\ Return(t, [op |-> "subscribe", valid |-> TRUE, after |-> loc[t].after,
                       id |-> id])
  /\ NoInvoke
  /\ UNCHANGED <<cfg, shutdown_, handlers_mutex_, queueVars, dispVars>>

(***************************************************************************)
(* EventBus::unsubscribe(id) and Subscription::unsubscribe()               *)
(***************************************************************************)
Forget(id) == [hist EXCEPT !.live = {x \in @ : x.id # id},
                           !.gone = @ \cup {x \in hist.live : x.id = id}]

Unsubscribe(t, id) ==
  /\ Idle(t)
  /\ handlers_mutex_ = NoThread
  /\ IF id \in DOMAIN subscription_map_
     THEN /\ handlers_' = HandlersErase(handlers_, subscription_map_[id], id)
          /\ subscription_map_' = Without(subscription_map_, id)
          /\ hist' = Forget(id)
          /\ Return(t, [op |-> "unsubscribe", val |-> TRUE])
     ELSE /\ UNCHANGED <<handlers_, subscription_map_, hist>>
          /\ Return(t, [op |-> "unsubscribe", val |-> FALSE])
  /\ NoInvoke
  /\ UNCHANGED <<cfg, shutdown_, next_id_, handlers_mutex_, unsubscribe_func_,
                 queueVars, dispVars>>

\* unsubscribe() that keeps the closure after invoking it.
ResetKeeps(f, s) == f

\* unsubscribe_func_ = nullptr, in the handle s.
Reset(f, s) == [f EXCEPT ![s] = Null]

\* Subscription::unsubscribe(), also run by ~Subscription: the closure runs
\* unsubscribe_internal(id), then the handle forgets it.
HandleUnsubscribe(t, s) ==
  /\ Idle(t)
  /\ s \in DOMAIN unsubscribe_func_
  /\ IF unsubscribe_func_[s] # Null
     THEN LET id == unsubscribe_func_[s][1]
          IN /\ handlers_mutex_ = NoThread
             /\ IF id \in DOMAIN subscription_map_
                THEN /\ handlers_' = HandlersErase(handlers_, subscription_map_[id], id)
                     /\ subscription_map_' = Without(subscription_map_, id)
                ELSE UNCHANGED <<handlers_, subscription_map_>>
             /\ unsubscribe_func_' = Reset(unsubscribe_func_, s)
             /\ hist' = Forget(id)
             /\ Return(t, [op |-> "handle_unsubscribe", ran |-> TRUE])
     ELSE /\ UNCHANGED <<handlers_, subscription_map_, unsubscribe_func_, hist>>
          /\ Return(t, [op |-> "handle_unsubscribe", ran |-> FALSE])
  /\ NoInvoke
  /\ UNCHANGED <<cfg, shutdown_, next_id_, handlers_mutex_, queueVars, dispVars>>

\* What Subscription::unsubscribe() on the handle s, called by the move
\* assignment and by the destructor, does to the registry.
Release(s) ==
  IF unsubscribe_func_[s] # Null
  THEN LET id == unsubscribe_func_[s][1]
       IN /\ handlers_mutex_ = NoThread
          /\ IF id \in DOMAIN subscription_map_
             THEN /\ handlers_' = HandlersErase(handlers_, subscription_map_[id], id)
                  /\ subscription_map_' = Without(subscription_map_, id)
             ELSE UNCHANGED <<handlers_, subscription_map_>>
          /\ hist' = Forget(id)
  ELSE UNCHANGED <<handlers_, subscription_map_, hist>>

\* A move that leaves the closure in the source as well.
ExchangeCopies(f, s) == f

\* std::exchange(other.unsubscribe_func_, nullptr): what is left of other.
Exchange(f, s) == [f EXCEPT ![s] = Null]

\* Subscription(Subscription &&other): the handle d is made from s.
MoveConstruct(t, d, s) ==
  /\ Idle(t)
  /\ d \notin DOMAIN unsubscribe_func_
  /\ s \in DOMAIN unsubscribe_func_
  /\ unsubscribe_func_' = (d :> unsubscribe_func_[s]) @@ Exchange(unsubscribe_func_, s)
  /\ Return(t, [op |-> "move_construct"])
  /\ NoInvoke
  /\ UNCHANGED <<cfg, shutdown_, next_id_, handlers_, subscription_map_,
                 handlers_mutex_, queueVars, dispVars, hist>>

\* Subscription::operator=(Subscription &&other): d = std::move(s).
MoveAssign(t, d, s) ==
  /\ Idle(t)
  /\ d \in DOMAIN unsubscribe_func_
  /\ s \in DOMAIN unsubscribe_func_
  /\ IF d # s
     THEN /\ Release(d)
          /\ unsubscribe_func_' =
               [Exchange(Reset(unsubscribe_func_, d), s) EXCEPT ![d] = unsubscribe_func_[s]]
     ELSE UNCHANGED <<handlers_, subscription_map_, unsubscribe_func_, hist>>
  /\ Return(t, [op |-> "move_assign", ran |-> d # s /\ unsubscribe_func_[d] # Null])
  /\ NoInvoke
  /\ UNCHANGED <<cfg, shutdown_, next_id_, handlers_mutex_, queueVars, dispVars>>

\* ~Subscription(): unsubscribe(), and the handle is no more.
Destroy(t, s) ==
  /\ Idle(t)
  /\ s \in DOMAIN unsubscribe_func_
  /\ Release(s)
  /\ unsubscribe_func_' = Without(unsubscribe_func_, s)
  /\ Return(t, [op |-> "destroy"])
  /\ NoInvoke
  /\ UNCHANGED <<cfg, shutdown_, next_id_, handlers_mutex_, queueVars, dispVars>>

\* Subscription::valid()
Valid(t, s) ==
  /\ Idle(t)
  /\ s \in DOMAIN unsubscribe_func_
  /\ Return(t, [op |-> "valid", val |-> unsubscribe_func_[s] # Null])
  /\ NoInvoke
  /\ UNCHANGED <<cfg, busVars, queueVars, dispVars, hist>>

(***************************************************************************)
(* queue.h: EventQueue                                                     *)
(***************************************************************************)
\* HasSpace with <= for <.
HasSpaceOffByOne(q) == ~cfg.queue.bounded \/ Len(q) <= cfg.queue.capacity

\* queue_.size() < capacity; capacity is numeric_limits<size_t>::max() for
\* UnboundedQueue, which no reachable size attains.
HasSpace(q) == ~cfg.queue.bounded \/ Len(q) < cfg.queue.capacity

\* A notify_one that wakes nobody.
NotifyNone(cv) == {cv}

\* condition_variable::notify_one: the sets of sleepers it can leave behind.
NotifyOne(cv) == IF cv = {} THEN {{}} ELSE {cv \ {w} : w \in cv}

\* The predicate of push's cv_.wait (BlockProducer).
PushPredicate == queue_shutdown_ \/ HasSpace(queue_)

\* The predicate of pop's cv_.wait.
PopPredicate == queue_shutdown_ \/ queue_ # Empty

\* PushBody without the check of shutdown_ that follows the wait.
PushBodyUnchecked(q, e) ==
  IF cfg.bp = "BlockProducer" \/ Len(q) < cfg.queue.capacity
  THEN [ec |-> "Success", queue |-> Append(q, e), notify |-> TRUE]
  ELSE IF cfg.bp = "DropNewest"
  THEN [ec |-> "QueueFull", queue |-> q, notify |-> FALSE]
  ELSE [ec |-> "Success", queue |-> Append(Tail(q), e), notify |-> TRUE]

\* PushBody whose DropOldest branch evicts the back of the queue.
PushBodyEvictsBack(q, e) ==
  IF queue_shutdown_
  THEN [ec |-> "BusShutdown", queue |-> q, notify |-> FALSE]
  ELSE IF cfg.bp = "DropOldest" /\ Len(q) >= cfg.queue.capacity
  THEN [ec |-> "Success", queue |-> Append(SubSeq(q, 1, Len(q) - 1), e),
        notify |-> TRUE]
  ELSE IF cfg.bp = "DropNewest" /\ Len(q) >= cfg.queue.capacity
  THEN [ec |-> "QueueFull", queue |-> q, notify |-> FALSE]
  ELSE [ec |-> "Success", queue |-> Append(q, e), notify |-> TRUE]

\* PushBody that inserts at the front of the queue.
PushBodyPrepends(q, e) ==
  IF queue_shutdown_
  THEN [ec |-> "BusShutdown", queue |-> q, notify |-> FALSE]
  ELSE IF cfg.bp # "BlockProducer" /\ ~HasSpace(q)
  THEN IF cfg.bp = "DropNewest"
       THEN [ec |-> "QueueFull", queue |-> q, notify |-> FALSE]
       ELSE [ec |-> "Success", queue |-> <<e>> \o Tail(q), notify |-> TRUE]
  ELSE [ec |-> "Success", queue |-> <<e>> \o q, notify |-> TRUE]

\* PushBody that checks shutdown_ in the BlockProducer branch only.
PushBodyDropUnchecked(q, e) ==
  IF queue_shutdown_ /\ cfg.bp = "BlockProducer"
  THEN [ec |-> "BusShutdown", queue |-> q, notify |-> FALSE]
  ELSE IF cfg.bp # "BlockProducer" /\ ~HasSpace(q)
  THEN IF cfg.bp = "DropNewest"
       THEN [ec |-> "QueueFull", queue |-> q, notify |-> FALSE]
       ELSE [ec |-> "Success", queue |-> Append(Tail(q), e), notify |-> TRUE]
  ELSE [ec |-> "Success", queue |-> Append(q, e), notify |-> TRUE]

\* push's result once it is past the wait (BlockProducer) or holds the lock
\* (DropOldest, DropNewest): [ec, queue, notify].
PushBody(q, e) ==
  IF queue_shutdown_
  THEN [ec |-> "BusShutdown", queue |-> q, notify |-> FALSE]
  ELSE IF cfg.bp = "BlockProducer"
  THEN [ec |-> "Success", queue |-> Append(q, e), notify |-> TRUE]
  ELSE IF ~HasSpace(q)
  THEN IF cfg.bp = "DropNewest"
       THEN [ec |-> "QueueFull", queue |-> q, notify |-> FALSE]
       ELSE [ec |-> "Success", queue |-> Append(Tail(q), e), notify |-> TRUE]
  ELSE [ec |-> "Success", queue |-> Append(q, e), notify |-> TRUE]

PublishRet(t, ec) == [op |-> "publish", val |-> ec, ev |-> loc[t].ev.seq,
                      after |-> loc[t].after]

\* PushReturn of a publish that dispatches whatever push returned.
PushReturnDispatches(t, ec) ==
  IF loc[t].caller = "publish"
  THEN /\ Goto(t, "pub_dispatch")
       /\ loc' = loc
       /\ NoReturn
  ELSE Return(t, [op |-> "push", val |-> ec, ev |-> loc[t].ev.seq,
                  blocked |-> loc[t].blocked])

\* What the caller of push does with its result: a thread that called push
\* itself is done; publish returns a failure, and goes on to dispatch after
\* Success.
PushReturn(t, ec) ==
  IF loc[t].caller = "publish"
  THEN IF ec = "Success"
       THEN /\ Goto(t, "pub_dispatch")
            /\ loc' = loc
            /\ NoReturn
       ELSE Return(t, PublishRet(t, ec))
  ELSE Return(t, [op |-> "push", val |-> ec, ev |-> loc[t].ev.seq,
                  blocked |-> loc[t].blocked])

PushEnter(t) ==
  /\ \/ pc[t] = "push_enter"
     \/ pc[t] = "push_wait" /\ t \notin queue_cv_
  /\ queue_mutex_ = NoThread
  /\ IF cfg.bp = "BlockProducer" /\ ~PushPredicate
     THEN /\ queue_mutex_' = t
          /\ Goto(t, "push_block")
          /\ NoReturn
          /\ UNCHANGED <<queue_, queue_cv_, loc, hist>>
     ELSE LET r == PushBody(queue_, loc[t].ev)
          IN /\ queue_' = r.queue
             /\ queue_cv_' \in IF r.notify THEN NotifyOne(queue_cv_) ELSE {queue_cv_}
             /\ hist' = IF r.ec = "Success"
                        THEN [hist EXCEPT !.pushed = Append(@, loc[t].ev.seq)]
                        ELSE hist
             /\ PushReturn(t, r.ec)
             /\ UNCHANGED queue_mutex_
  /\ NoInvoke
  /\ UNCHANGED <<cfg, busVars, queue_shutdown_, dispVars>>

\* cv_.wait found the predicate false: release the mutex and sleep.
PushSleep(t) ==
  /\ pc[t] = "push_block"
  /\ queue_mutex_' = NoThread
  /\ queue_cv_' = queue_cv_ \cup {t}
  /\ Goto(t, "push_wait")
  /\ NoReturn /\ NoInvoke
  /\ UNCHANGED <<cfg, busVars, queue_, queue_shutdown_, dispVars, loc, hist>>

\* The locals of process_events at the top of its loop.  A drain unit that
\* SynchronousDispatcher::dispatch runs on the thread of publish keeps, in
\* arg, the locals of that publish; a worker's drain unit has none.
DrainFrame(t) == [NoLoc EXCEPT !.caller = "drain", !.arg = loc[t].arg]

\* What the caller of pop does with its result.  process_events snapshots
\* the handlers of an event, and leaves its loop on nullopt: a worker is back
\* in run, a publisher is back in dispatch, which returns, and publish
\* returns Success.
PopReturn(t, e) ==
  IF loc[t].caller = "drain"
  THEN IF e # NoEvent
       THEN /\ Goto(t, "drain_snap")
            /\ loc' = [loc EXCEPT ![t] = [DrainFrame(t) EXCEPT !.ev = e]]
            /\ NoReturn
       ELSE IF loc[t].arg = Null
       THEN /\ Goto(t, "run_loop")
            /\ loc' = [loc EXCEPT ![t] = NoLoc]
            /\ NoReturn
       ELSE Return(t, [op |-> "publish", val |-> "Success",
                       ev |-> loc[t].arg.ev.seq, after |-> loc[t].arg.after])
  ELSE Return(t, [op |-> "pop", val |-> e.seq])

\* pop that takes the newest event.
PopBodyBack(q) == [e |-> q[Len(q)], queue |-> SubSeq(q, 1, Len(q) - 1)]

\* pop that leaves the event in the queue.
PopBodyPeeks(q) == [e |-> Head(q), queue |-> q]

\* pop's body on a queue that is not empty: front(), then pop().
PopBody(q) == [e |-> Head(q), queue |-> Tail(q)]

PopEnter(t) ==
  /\ \/ pc[t] = "pop_enter"
     \/ pc[t] = "pop_wait" /\ t \notin queue_cv_
  /\ queue_mutex_ = NoThread
  /\ IF ~PopPredicate
     THEN /\ queue_mutex_' = t
          /\ Goto(t, "pop_block")
          /\ NoReturn
          /\ UNCHANGED <<queue_, loc, hist>>
     ELSE IF queue_shutdown_ /\ queue_ = Empty
     THEN /\ PopReturn(t, NoEvent)
          /\ UNCHANGED <<queue_, queue_mutex_, hist>>
     ELSE LET r == PopBody(queue_)
          IN /\ queue_' = r.queue
             /\ hist' = [hist EXCEPT !.popped = Append(@, r.e.seq)]
             /\ PopReturn(t, r.e)
             /\ UNCHANGED queue_mutex_
  /\ NoInvoke
  /\ UNCHANGED <<cfg, busVars, queue_shutdown_, queue_cv_, dispVars>>

PopSleep(t) ==
  /\ pc[t] = "pop_block"
  /\ queue_mutex_' = NoThread
  /\ queue_cv_' = queue_cv_ \cup {t}
  /\ Goto(t, "pop_wait")
  /\ NoReturn /\ NoInvoke
  /\ UNCHANGED <<cfg, busVars, queue_, queue_shutdown_, dispVars, loc, hist>>

(***************************************************************************)
(* EventBus::publish<EventType>(event)                                     *)
(***************************************************************************)
NewEvent(T) == [type |-> WrapEvent(T), seq |-> hist.events + 1, ptype |-> T,
                gone |-> hist.gone]

\* publish that takes the inline branch whatever the policy.
IsSynchronousAlways == TRUE

\* if constexpr (std::is_same_v<ExecutionPolicy, Synchronous>)
IsSynchronous == cfg.exec = "Synchronous"

PublishCall(t, T) ==
  /\ Idle(t)
  /\ IF IsShutdown
     THEN /\ Return(t, [op |-> "publish", val |-> "BusShutdown", ev |-> 0,
                        after |-> hist.sd_returned])
          /\ hist' = [hist EXCEPT !.pubcalls = @ + 1]
     ELSE /\ Goto(t, IF IsSynchronous THEN "pub_lock" ELSE "push_enter")
          /\ loc' = [loc EXCEPT ![t] = [NoLoc EXCEPT !.ev = NewEvent(T),
                                          !.caller = "publish",
                                          !.after = hist.sd_returned]]
          /\ hist' = [hist EXCEPT !.pubcalls = @ + 1, !.events = @ + 1]
          /\ NoReturn
  /\ NoInvoke
  /\ UNCHANGED <<cfg, busVars, queueVars, dispVars>>

\* The lookup, under handlers_mutex_, of the inline sweep and of the drain
\* unit: the thread's locals after it.
Lookup(t) ==
  LET found == MatchingHandlers(handlers_, loc[t].ev)
  IN [loc[t] EXCEPT !.snap = found, !.todo = found, !.done = Empty,
                    !.live = LiveFor(loc[t].ev.ptype)]

\* handler->call(event): the invocation, when the wrapper makes one (prior:
\* a handler called before it for the same event has thrown).
Invoke(t, w, o) ==
  call' = IF HandlerWrapperCall(w, loc[t].ev)
          THEN [w |-> w, e |-> loc[t].ev, outcome |-> o, prior |-> loc[t].failed]
          ELSE NoCall

\* The thread's locals after handler->call(event).
Called(t, w, o) ==
  [loc[t] EXCEPT !.todo = @ \ {w},
                 !.done = IF HandlerWrapperCall(w, loc[t].ev)
                          THEN Append(@, w.owner) ELSE @,
                 !.failed = @ \/ (HandlerWrapperCall(w, loc[t].ev) /\ Throws(o))]

\* A sweep that does not hold the mutex.
SweepLockNone(t) == NoThread

\* std::scoped_lock lock(handlers_mutex_), held to the end of the branch.
SweepLock(t) == t

\* Synchronous: scoped_lock, then the lookup.
PublishLock(t) ==
  /\ pc[t] = "pub_lock"
  /\ handlers_mutex_ = NoThread
  /\ handlers_mutex_' = SweepLock(t)
  /\ loc' = [loc EXCEPT ![t] = Lookup(t)]
  /\ Goto(t, "pub_sweep")
  /\ NoReturn /\ NoInvoke
  /\ UNCHANGED <<cfg, shutdown_, next_id_, handlers_, subscription_map_,
                 unsubscribe_func_, queueVars, dispVars, hist>>

\* Synchronous: one iteration of the sweep.  Nothing catches what a handler
\* throws: it leaves publish, and the scoped_lock lets go of the mutex.
PublishSweepCall(t, w, o) ==
  /\ pc[t] = "pub_sweep"
  /\ w \in IterationNext(loc[t].todo)
  /\ Invoke(t, w, o)
  /\ IF HandlerWrapperCall(w, loc[t].ev) /\ Throws(o)
     THEN /\ handlers_mutex_' = NoThread
          /\ Return(t, PublishRet(t, "exception"))
     ELSE /\ loc' = [loc EXCEPT ![t] = Called(t, w, o)]
          /\ NoReturn
          /\ UNCHANGED <<handlers_mutex_, pc>>
  /\ UNCHANGED <<cfg, shutdown_, next_id_, handlers_, subscription_map_,
                 unsubscribe_func_, queueVars, dispVars, hist>>

PublishSweepReturn(t) ==
  /\ pc[t] = "pub_sweep"
  /\ loc[t].todo = {}
  /\ handlers_mutex_' = NoThread
  /\ Return(t, PublishRet(t, "Success"))
  /\ NoInvoke
  /\ UNCHANGED <<cfg, shutdown_, next_id_, handlers_, subscription_map_,
                 unsubscribe_func_, queueVars, dispVars, hist>>

\* The unit the bus dispatches, [this]() { process_events(); }; the units a
\* client of the dispatcher dispatches are numbered from 1.
ProcessEvents == 0

\* The unit in the hands of a thread inside dispatch.
Unit(t) == IF loc[t].caller = "publish" THEN ProcessEvents ELSE loc[t].arg

\* What the caller of dispatch does when it returns: publish returns Success.
DispatchReturn(t, accepted) ==
  IF loc[t].caller = "publish"
  THEN Return(t, PublishRet(t, "Success"))
  ELSE Return(t, [op |-> "dispatch", unit |-> loc[t].arg, accepted |-> accepted,
                  after |-> loc[t].after])

\* dispatch that does not look at the flag.
DispatchAcceptsAlways == TRUE

\* dispatch goes on when !shutdown_.load().
DispatchAccepts == ~disp_shutdown_

\* dispatch(task), called by publish after a successful push or by a client
\* of the dispatcher: the check of the flag, and what the variant does next.
\* SynchronousDispatcher calls the unit on the caller's thread (the bus's
\* unit, process_events, starts in pop),
\* ExternalDispatcher hands it to the executor callback, the other two go on
\* to lock the mutex.
PublishDispatch(t) ==
  /\ pc[t] = "pub_dispatch"
  /\ IF ~DispatchAccepts
     THEN /\ DispatchReturn(t, FALSE)
          /\ hist' = hist
     ELSE IF cfg.disp = "SynchronousDispatcher"
     THEN /\ IF Unit(t) = ProcessEvents
             THEN /\ Goto(t, "pop_enter")
                  /\ loc' = [loc EXCEPT ![t] = [NoLoc EXCEPT !.caller = "drain",
                                                            !.arg = loc[t]]]
             ELSE /\ Goto(t, "unit_run")
                  /\ loc' = loc
          /\ NoReturn
          /\ hist' = [hist EXCEPT !.deq = Append(@, Unit(t))]
     ELSE IF cfg.disp = "ExternalDispatcher"
     THEN /\ DispatchReturn(t, TRUE)
          /\ hist' = [hist EXCEPT !.enq = Append(@, Unit(t))]
     ELSE /\ Goto(t, "dispatch_push")
          /\ loc' = loc
          /\ NoReturn
          /\ hist' = hist
  /\ NoInvoke
  /\ UNCHANGED <<cfg, busVars, queueVars, dispVars>>

\* scoped_lock, tasks_.push(task), unlock, cv_.notify_one().
DispatchPush(t) ==
  /\ pc[t] = "dispatch_push"
  /\ tasks_mutex_ = NoThread
  /\ tasks_' = Append(tasks_, Unit(t))
  /\ tasks_cv_' \in NotifyOne(tasks_cv_)
  /\ hist' = [hist EXCEPT !.dispatched = @ + 1, !.enq = Append(@, Unit(t))]
  /\ DispatchReturn(t, TRUE)
  /\ NoInvoke
  /\ UNCHANGED <<cfg, busVars, queueVars, disp_shutdown_, tasks_mutex_>>

\* The unit returns: to dispatch on the caller's thread
\* (SynchronousDispatcher), or to the loop of the worker that called it.
UnitReturn(t) ==
  /\ pc[t] = "unit_run"
  /\ IF loc[t].caller = "unit"
     THEN /\ Goto(t, "run_loop")
          /\ loc' = [loc EXCEPT ![t] = NoLoc]
          /\ NoReturn
     ELSE DispatchReturn(t, TRUE)
  /\ NoInvoke
  /\ UNCHANGED <<cfg, busVars, queueVars, dispVars, hist>>

(***************************************************************************)
(* SingleThreadDispatcher::run, the worker thread                          *)
(***************************************************************************)
\* while (!shutdown_.load())
RunLoop(w) ==
  /\ pc[w] = "run_loop"
  /\ Goto(w, IF disp_shutdown_ THEN "run_exit" ELSE "run_enter")
  /\ NoReturn /\ NoInvoke
  /\ UNCHANGED <<cfg, busVars, queueVars, dispVars, loc, hist>>

\* The predicate of run's cv_.wait.
RunPredicate == disp_shutdown_ \/ tasks_ # Empty

\* A worker that takes the newest unit.
TakeTaskBack(q) == [task |-> q[Len(q)], tasks |-> SubSeq(q, 1, Len(q) - 1)]

\* A worker that leaves the unit in tasks_.
TakeTaskKeeps(q) == [task |-> Head(q), tasks |-> q]

\* task = std::move(tasks_.front()); tasks_.pop();
TakeTask(q) == [task |-> Head(q), tasks |-> Tail(q)]

\* unique_lock, the wait's predicate, and what follows it when it holds:
\* break, or take the front task and call it (process_events starts in pop).
RunEnter(w) ==
  /\ \/ pc[w] = "run_enter"
     \/ pc[w] = "run_wait" /\ w \notin tasks_cv_
  /\ tasks_mutex_ = NoThread
  /\ IF ~RunPredicate
     THEN /\ tasks_mutex_' = w
          /\ Goto(w, "run_block")
          /\ UNCHANGED <<tasks_, loc, hist>>
     ELSE IF disp_shutdown_ /\ tasks_ = Empty
     THEN /\ Goto(w, "run_exit")
          /\ UNCHANGED <<tasks_, tasks_mutex_, loc, hist>>
     ELSE LET r == TakeTask(tasks_)
          IN /\ tasks_' = r.tasks
             /\ IF r.task = ProcessEvents
                THEN /\ Goto(w, "pop_enter")
                     /\ loc' = [loc EXCEPT ![w] = [NoLoc EXCEPT !.caller = "drain"]]
                ELSE /\ Goto(w, "unit_run")
                     /\ loc' = [loc EXCEPT ![w] = [NoLoc EXCEPT !.caller = "unit",
                                                               !.arg = r.task]]
             /\ hist' = [hist EXCEPT !.started = @ + 1, !.deq = Append(@, r.task)]
             /\ UNCHANGED tasks_mutex_
  /\ NoReturn /\ NoInvoke
  /\ UNCHANGED <<cfg, busVars, queueVars, disp_shutdown_, tasks_cv_>>

RunSleep(w) ==
  /\ pc[w] = "run_block"
  /\ tasks_mutex_' = NoThread
  /\ tasks_cv_' = tasks_cv_ \cup {w}
  /\ Goto(w, "run_wait")
  /\ NoReturn /\ NoInvoke
  /\ UNCHANGED <<cfg, busVars, queueVars, tasks_, disp_shutdown_, loc, hist>>

(***************************************************************************)
(* EventBus::process_events, the drain unit                                *)
(***************************************************************************)
\* Where the drain unit goes once todo is what is left of handlers_copy.
DrainNext(todo) == IF todo = {} THEN "drain_done" ELSE "drain_call"

\* A snapshot block that does not let go of the mutex.
SnapshotUnlockNever(w) == w

\* The scoped_lock of the snapshot block goes out of scope at its closing
\* brace, before the loop over handlers_copy: who holds the mutex then.
SnapshotUnlock(w) == NoThread

\* handlers_copy, taken under handlers_mutex_.
DrainSnapshot(w) ==
  /\ pc[w] = "drain_snap"
  /\ handlers_mutex_ = NoThread
  /\ handlers_mutex_' = SnapshotUnlock(w)
  /\ loc' = [loc EXCEPT ![w] = Lookup(w)]
  /\ Goto(w, DrainNext(Lookup(w).todo))
  /\ NoReturn /\ NoInvoke
  /\ UNCHANGED <<cfg, shutdown_, next_id_, handlers_, subscription_map_,
                 unsubscribe_func_, queueVars, dispVars, hist>>

\* One iteration of the loop over handlers_copy, outside the mutex.  What
\* no catch clause catches leaves process_events and the thread function.
DrainCall(w, x, o) ==
  /\ pc[w] = "drain_call"
  /\ x \in IterationNext(loc[w].todo)
  /\ Invoke(w, x, o)
  /\ IF HandlerWrapperCall(x, loc[w].ev) /\ Throws(o) /\ ~Catches(o)
     THEN /\ Goto(w, "terminated")
          /\ loc' = loc
     ELSE /\ loc' = [loc EXCEPT ![w] = Called(w, x, o)]
          /\ Goto(w, DrainNext(loc[w].todo \ {x}))
  /\ hist' = IF HandlerWrapperCall(x, loc[w].ev) /\ Throws(o) /\ hist.fault = 0
             THEN [hist EXCEPT !.fault = loc[w].ev.seq] ELSE hist
  /\ NoReturn
  /\ UNCHANGED <<cfg, busVars, queueVars, dispVars>>

\* A drain unit that returns after one event.
DrainDoneReturns(w) ==
  /\ pc[w] = "drain_done"
  /\ Goto(w, "run_loop")
  /\ loc' = [loc EXCEPT ![w] = NoLoc]
  /\ NoReturn /\ NoInvoke
  /\ UNCHANGED <<cfg, busVars, queueVars, dispVars, hist>>

\* The end of one iteration of process_events' loop: event and handlers_copy
\* go out of scope, and the loop is back in pop.
DrainDone(w) ==
  /\ pc[w] = "drain_done"
  /\ Goto(w, "pop_enter")
  /\ loc' = [loc EXCEPT ![w] = DrainFrame(w)]
  /\ NoReturn /\ NoInvoke
  /\ UNCHANGED <<cfg, busVars, queueVars, dispVars, hist>>

(***************************************************************************)
(* A handler that, before it returns, makes a call on the bus that invoked *)
(* it: subscribe<EventType>, unsubscribe(id) with the id of its own        *)
(* subscription, or publish of another event of its type.                  *)
(***************************************************************************)
Reentries == {"subscribe", "unsubscribe", "publish"}
HandlerLabel(op) ==
  CASE op = "subscribe" -> "handler_subscribe"
    [] op = "unsubscribe" -> "handler_unsubscribe"
    [] op = "publish" -> "handler_publish"
HandlerLabels == {"handler_subscribe", "handler_unsubscribe", "handler_publish",
                  "handler_dispatch"}

\* A mutex that its owner can lock again.
CanLockRecursive(t, m) == m \in {NoThread, t}

\* std::scoped_lock lock(handlers_mutex_) on the thread t goes on when no
\* thread holds the std::mutex.  The thread that holds it is not excepted:
\* the standard leaves locking it again undefined, and with a pthread mutex
\* of the default kind the thread waits for itself.
CanLock(t, m) == m = NoThread

\* handler->call(event), by the inline sweep or by a drain unit, of a
\* handler that goes on to call op; arg keeps the wrapper that is running.
\* The handle that a handler gets from subscribe stays with the handler.
HandlerEnters(t, x, op) ==
  /\ pc[t] \in {"pub_sweep", "drain_call"}
  /\ x \in IterationNext(loc[t].todo)
  /\ HandlerWrapperCall(x, loc[t].ev)
  /\ Invoke(t, x, "reenters")
  /\ Goto(t, HandlerLabel(op))
  /\ loc' = [loc EXCEPT ![t].arg = x]
  /\ hist' = IF op = "subscribe" THEN [hist EXCEPT !.subcalls = @ + 1] ELSE hist
  /\ NoReturn
  /\ UNCHANGED <<cfg, busVars, queueVars, dispVars>>

\* The call the handler made has returned, and the handler returns: the
\* sweep, or the loop over handlers_copy, goes on.
HandlerReturns(t, op) ==
  /\ pc' = [pc EXCEPT ![t] = IF loc[t].caller = "drain"
                              THEN DrainNext(loc[t].todo \ {loc[t].arg})
                              ELSE "pub_sweep"]
  /\ loc' = [loc EXCEPT ![t] = [Called(t, loc[t].arg, "returns") EXCEPT !.arg = Null]]
  /\ ret' = [op |-> "handler", made |-> op, by |-> t]

\* subscribe, called by the handler.
HandlerSubscribe(t) ==
  /\ pc[t] = "handler_subscribe"
  /\ IF IsShutdown
     THEN UNCHANGED <<next_id_, handlers_, subscription_map_, hist>>
     ELSE /\ CanLock(t, handlers_mutex_)
          /\ LET id == NewId
                 T == loc[t].arg.etype
             IN /\ next_id_' = next_id_ + 1
                /\ handlers_' = HandlersInsert(handlers_, type_index(T), id,
                                               HandlerWrapper(T, id))
                /\ subscription_map_' = (id :> type_index(T)) @@ subscription_map_
                /\ hist' = [hist EXCEPT !.live = @ \cup {[id |-> id, T |-> T]}]
  /\ HandlerReturns(t, "subscribe")
  /\ NoInvoke
  /\ UNCHANGED <<cfg, shutdown_, handlers_mutex_, unsubscribe_func_, queueVars,
                 dispVars>>

\* unsubscribe(id), called by the handler with the id of its subscription.
HandlerUnsubscribe(t) ==
  /\ pc[t] = "handler_unsubscribe"
  /\ CanLock(t, handlers_mutex_)
  /\ LET id == loc[t].arg.owner
     IN IF id \in DOMAIN subscription_map_
        THEN /\ handlers_' = HandlersErase(handlers_, subscription_map_[id], id)
             /\ subscription_map_' = Without(subscription_map_, id)
             /\ hist' = Forget(id)
        ELSE UNCHANGED <<handlers_, subscription_map_, hist>>
  /\ HandlerReturns(t, "unsubscribe")
  /\ NoInvoke
  /\ UNCHANGED <<cfg, shutdown_, next_id_, handlers_mutex_, unsubscribe_func_,
                 queueVars, dispVars>>

\* publish, called by the handler: the check of the flag; then, Synchronous,
\* the scoped_lock and a sweep for the new event, whose handlers return;
\* otherwise push, and dispatch after Success.
HandlerPublish(t) ==
  /\ pc[t] = "handler_publish"
  /\ IF IsShutdown
     THEN /\ HandlerReturns(t, "publish")
          /\ hist' = [hist EXCEPT !.pubcalls = @ + 1]
          /\ UNCHANGED <<queue_, queue_cv_>>
     ELSE IF IsSynchronous
     THEN /\ CanLock(t, handlers_mutex_)
          /\ HandlerReturns(t, "publish")
          /\ hist' = [hist EXCEPT !.pubcalls = @ + 1, !.events = @ + 1]
          /\ UNCHANGED <<queue_, queue_cv_>>
     ELSE LET e == NewEvent(loc[t].arg.etype)
              r == PushBody(queue_, e)
          IN /\ queue_mutex_ = NoThread
             /\ cfg.bp = "BlockProducer" => PushPredicate
             /\ queue_' = r.queue
             /\ queue_cv_' \in IF r.notify THEN NotifyOne(queue_cv_) ELSE {queue_cv_}
             /\ hist' = [hist EXCEPT
                           !.pubcalls = @ + 1, !.events = @ + 1,
                           !.pushed = IF r.ec = "Success" THEN Append(@, e.seq) ELSE @]
             /\ IF r.ec = "Success"
                THEN /\ Goto(t, "handler_dispatch")
                     /\ loc' = loc
                     /\ NoReturn
                ELSE HandlerReturns(t, "publish")
  /\ NoInvoke
  /\ UNCHANGED <<cfg, busVars, queue_shutdown_, queue_mutex_, dispVars>>

\* dispatch of the drain unit by the publish the handler called, on the
\* SingleThreadDispatcher.
HandlerDispatch(t) ==
  /\ pc[t] = "handler_dispatch"
  /\ IF ~DispatchAccepts
     THEN UNCHANGED <<tasks_, tasks_cv_, hist>>
     ELSE /\ tasks_mutex_ = NoThread
          /\ tasks_' = Append(tasks_, ProcessEvents)
          /\ tasks_cv_' \in NotifyOne(tasks_cv_)
          /\ hist' = [hist EXCEPT !.dispatched = @ + 1,
                                  !.enq = Append(@, ProcessEvents)]
  /\ HandlerReturns(t, "publish")
  /\ NoInvoke
  /\ UNCHANGED <<cfg, busVars, queueVars, disp_shutdown_, tasks_mutex_>>

\* The call that a handler has made goes on.
HandlerStep(t) ==
  \/ HandlerSubscribe(t)
  \/ HandlerUnsubscribe(t)
  \/ HandlerPublish(t)
  \/ HandlerDispatch(t)

(***************************************************************************)
(* EventBus::shutdown: the flag, queue_->shutdown(), dispatcher_->shutdown()*)
(***************************************************************************)
\* A store that flips the flag.
ShutdownStoreFlips == ~shutdown_

\* The value of shutdown_.store(true).
ShutdownStore == TRUE

ShutdownCall(t) ==
  /\ Idle(t)
  /\ shutdown_' = ShutdownStore
  /\ Goto(t, "sd_queue_store")
  /\ loc' = [loc EXCEPT ![t] = [NoLoc EXCEPT !.caller = "shutdown"]]
  /\ hist' = [hist EXCEPT !.sdcalls = @ + 1]
  /\ NoReturn /\ NoInvoke
  /\ UNCHANGED <<cfg, next_id_, handlers_, subscription_map_, handlers_mutex_,
                 unsubscribe_func_, queueVars, dispVars>>

\* EventQueue::shutdown: shutdown_.store(true).  The threads inside push's
\* wait at this moment are marked.
QueueShutdownStore(t) ==
  /\ pc[t] = "sd_queue_store"
  /\ queue_shutdown_' = TRUE
  /\ pc' = [pc EXCEPT ![t] = "sd_queue_notify"]
  /\ loc' = [u \in Threads |->
               IF pc[u] \in {"push_block", "push_wait"}
               THEN [loc[u] EXCEPT !.blocked = TRUE] ELSE loc[u]]
  /\ NoReturn /\ NoInvoke
  /\ UNCHANGED <<cfg, busVars, queue_, queue_mutex_, queue_cv_, dispVars, hist>>

\* EventQueue::shutdown: cv_.notify_all().
QueueShutdownNotify(t) ==
  /\ pc[t] = "sd_queue_notify"
  /\ queue_cv_' = {}
  /\ IF loc[t].caller \in {"shutdown", "~EventBus"}
     THEN /\ Goto(t, "sd_disp_store")
          /\ loc' = loc
          /\ NoReturn
          /\ hist' = hist
     ELSE /\ Return(t, [op |-> "queue_shutdown"])
          /\ hist' = [hist EXCEPT !.sd_returned = TRUE]
  /\ NoInvoke
  /\ UNCHANGED <<cfg, busVars, queue_, queue_shutdown_, queue_mutex_, dispVars>>

\* What the caller of the dispatcher's shutdown() returns.
ShutdownRet(t) ==
  IF loc[t].caller = "shutdown" THEN [op |-> "shutdown"] ELSE [op |-> "disp_shutdown"]

\* The dispatcher's shutdown() returns: to the caller of shutdown(), or into
\* the destructor that called it.
ShutdownReturn(t) ==
  IF loc[t].caller = "~EventBus"
  THEN /\ Goto(t, "dtor_members")
       /\ loc' = loc
       /\ NoReturn
  ELSE IF loc[t].caller = "~Dispatcher"
  THEN /\ Goto(t, "dtor_join")
       /\ loc' = loc
       /\ NoReturn
  ELSE Return(t, ShutdownRet(t))

\* Dispatcher::shutdown: shutdown_.store(true).  SynchronousDispatcher and
\* ExternalDispatcher have nothing more to do.
DispatcherShutdownStore(t) ==
  /\ pc[t] = "sd_disp_store"
  /\ disp_shutdown_' = TRUE
  /\ IF cfg.disp \in {"SynchronousDispatcher", "ExternalDispatcher"}
     THEN /\ ShutdownReturn(t)
          /\ hist' = [hist EXCEPT !.sd_returned = TRUE]
     ELSE /\ Goto(t, "sd_disp_notify")
          /\ loc' = loc
          /\ NoReturn
          /\ hist' = hist
  /\ NoInvoke
  /\ UNCHANGED <<cfg, busVars, queueVars, tasks_, tasks_mutex_, tasks_cv_>>

\* SingleThreadDispatcher::shutdown: cv_.notify_one();
\* ThreadPoolDispatcher::shutdown: cv_.notify_all().
DispatcherShutdownNotify(t) ==
  /\ pc[t] = "sd_disp_notify"
  /\ tasks_cv_' \in IF cfg.disp = "ThreadPoolDispatcher" THEN {{}}
                    ELSE NotifyOne(tasks_cv_)
  /\ ShutdownReturn(t)
  /\ hist' = [hist EXCEPT !.sd_returned = TRUE]
  /\ NoInvoke
  /\ UNCHANGED <<cfg, busVars, queueVars, tasks_, disp_shutdown_, tasks_mutex_>>

(***************************************************************************)
(* EventBus::~EventBus: shutdown(), then the members are destroyed in the  *)
(* reverse of the order of their declaration: shutdown_, next_id_,         *)
(* handlers_mutex_, subscription_map_, handlers_, queue_ and, last,        *)
(* dispatcher_, whose destructor calls shutdown() and joins the worker.    *)
(***************************************************************************)
\* The body of the destructor: the first statement of shutdown().
DestructorCall(t) ==
  /\ Idle(t)
  /\ shutdown_' = ShutdownStore
  /\ Goto(t, "sd_queue_store")
  /\ loc' = [loc EXCEPT ![t] = [NoLoc EXCEPT !.caller = "~EventBus"]]
  /\ hist' = [hist EXCEPT !.sdcalls = @ + 1]
  /\ NoReturn /\ NoInvoke
  /\ UNCHANGED <<cfg, next_id_, handlers_, subscription_map_, handlers_mutex_,
                 unsubscribe_func_, queueVars, dispVars>>

\* The members declared after dispatcher_ are destroyed, the queue among
\* them; ~SingleThreadDispatcher starts with shutdown().
DestroyMembers(t) ==
  /\ pc[t] = "dtor_members"
  /\ hist' = [hist EXCEPT !.destroyed = TRUE]
  /\ Goto(t, "sd_disp_store")
  /\ loc' = [loc EXCEPT ![t] = [NoLoc EXCEPT !.caller = "~Dispatcher"]]
  /\ NoReturn /\ NoInvoke
  /\ UNCHANGED <<cfg, busVars, queueVars, dispVars>>

\* ~SingleThreadDispatcher: worker_.join() returns when run has returned.
Join(t) ==
  /\ pc[t] = "dtor_join"
  /\ \A w \in Workers : pc[w] = "run_exit"
  /\ Return(t, [op |-> "~EventBus"])
  /\ NoInvoke
  /\ UNCHANGED <<cfg, busVars, queueVars, dispVars, hist>>

\* The steps of process_events that use *queue_, handlers_ or
\* handlers_mutex_: pop, from locking the mutex to leaving the wait, and the
\* snapshot.
UsesBusMembers(w) ==
  \/ pc[w] \in {"pop_enter", "pop_block", "drain_snap"}
  \/ pc[w] = "pop_wait" /\ w \notin queue_cv_

\* Such a step taken when ~EventBus has destroyed the members: the behaviour
\* of the thread is undefined from then on.
UseAfterFree(w) ==
  /\ hist.destroyed
  /\ UsesBusMembers(w)
  /\ Goto(w, "undefined")
  /\ NoReturn /\ NoInvoke
  /\ UNCHANGED <<cfg, busVars, queueVars, dispVars, loc, hist>>

\* Subscription::unsubscribe() or ~Subscription on a bound handle when the
\* bus is destroyed: the closure calls unsubscribe_internal(id) through the
\* this it captured, which locks handlers_mutex_ of the destroyed bus; the
\* behaviour of the thread is undefined from then on.
ReleaseAfterFree(t, s) ==
  /\ Idle(t)
  /\ hist.destroyed
  /\ s \in DOMAIN unsubscribe_func_
  /\ unsubscribe_func_[s] # Null
  /\ Goto(t, "undefined")
  /\ NoReturn /\ NoInvoke
  /\ UNCHANGED <<cfg, busVars, queueVars, dispVars, loc, hist>>

\* EventBus::active
Active(t) ==
  /\ Idle(t)
  /\ Return(t, [op |-> "active", val |-> ~IsShutdown, after |-> hist.sd_returned])
  /\ NoInvoke
  /\ UNCHANGED <<cfg, busVars, queueVars, dispVars, hist>>

(***************************************************************************)
(* Threads that use an EventQueue directly.                                *)
(***************************************************************************)
QPushCall(t) ==
  /\ Idle(t)
  /\ Goto(t, "push_enter")
  /\ loc' = [loc EXCEPT ![t] = [NoLoc EXCEPT !.ev = NewEvent("A"),
                                  !.caller = "client"]]
  /\ hist' = [hist EXCEPT !.events = @ + 1]
  /\ NoReturn /\ NoInvoke
  /\ UNCHANGED <<cfg, busVars, queueVars, dispVars>>

QPopCall(t) ==
  /\ Idle(t)
  /\ Goto(t, "pop_enter")
  /\ loc' = [loc EXCEPT ![t] = [NoLoc EXCEPT !.caller = "client"]]
  /\ NoReturn /\ NoInvoke
  /\ UNCHANGED <<cfg, busVars, queueVars, dispVars, hist>>

QShutdownCall(t) ==
  /\ Idle(t)
  /\ Goto(t, "sd_queue_store")
  /\ loc' = [loc EXCEPT ![t] = [NoLoc EXCEPT !.caller = "client"]]
  /\ hist' = [hist EXCEPT !.sdcalls = @ + 1]
  /\ NoReturn /\ NoInvoke
  /\ UNCHANGED <<cfg, busVars, queueVars, dispVars>>

(***************************************************************************)
(* Threads that use a Dispatcher directly.                                 *)
(***************************************************************************)
\* dispatch(unit): the units are numbered in the order of the calls.
DDispatchCall(t) ==
  /\ Idle(t)
  /\ Goto(t, "pub_dispatch")
  /\ loc' = [loc EXCEPT ![t] = [NoLoc EXCEPT !.caller = "dispatch",
                                          !.arg = hist.units + 1,
                                          !.after = hist.sd_returned]]
  /\ hist' = [hist EXCEPT !.units = @ + 1,
                          !.late = IF hist.sd_returned THEN @ \cup {hist.units + 1}
                                   ELSE @]
  /\ NoReturn /\ NoInvoke
  /\ UNCHANGED <<cfg, busVars, queueVars, dispVars>>

DShutdownCall(t) ==
  /\ Idle(t)
  /\ Goto(t, "sd_disp_store")
  /\ loc' = [loc EXCEPT ![t] = [NoLoc EXCEPT !.caller = "client"]]
  /\ hist' = [hist EXCEPT !.sdcalls = @ + 1]
  /\ NoReturn /\ NoInvoke
  /\ UNCHANGED <<cfg, busVars, queueVars, dispVars>>

(***************************************************************************)
(* The state after construction.                                           *)
(***************************************************************************)
NoHist == [subcalls |-> 0, pubcalls |-> 0, sdcalls |-> 0, events |-> 0,
           sd_returned |-> FALSE, gone |-> {}, live |-> {}, pushed |-> Empty,
           popped |-> Empty, dispatched |-> 0, started |-> 0, fault |-> 0,
           units |-> 0, enq |-> Empty, deq |-> Empty, late |-> {},
           destroyed |-> FALSE]

InitCommon ==
  /\ shutdown_ = FALSE
  /\ next_id_ = 0
  /\ handlers_ = Empty
  /\ subscription_map_ = Empty
  /\ handlers_mutex_ = NoThread
  /\ unsubscribe_func_ = [s \in Slots |-> Null]
  /\ queue_ = Empty
  /\ queue_shutdown_ = FALSE
  /\ queue_mutex_ = NoThread
  /\ queue_cv_ = {}
  /\ tasks_ = Empty
  /\ disp_shutdown_ = FALSE
  /\ tasks_mutex_ = NoThread
  /\ tasks_cv_ = {}
  /\ loc = [t \in Threads |-> NoLoc]
  /\ ret = NoRet
  /\ call = NoCall
  /\ hist = NoHist

\* EventBus(): createDispatcher gives a Synchronous bus a SynchronousDispatcher
\* and any other bus a SingleThreadDispatcher, whose constructor starts run.
\* The queue policies are the defaults: UnboundedQueue, BlockProducer.
createDispatcher(e) ==
  IF e = "Synchronous" THEN "SynchronousDispatcher" ELSE "SingleThreadDispatcher"

Init ==
  /\ cfg \in {[exec |-> e, queue |-> UnboundedQueue, bp |-> "BlockProducer",
                disp |-> createDispatcher(e)] : e \in ExecutionPolicies}
  /\ pc = [t \in Threads |->
             IF t \in Clients THEN "idle"
             ELSE IF t \in Workers /\ cfg.exec = "Asynchronous" THEN "run_loop"
             ELSE "none"]
  /\ InitCommon

(***************************************************************************)
(* What the threads of a run do.  The client c1 owns the subscriptions and *)
(* shuts the bus down, the client c2 publishes, w1 is the thread that the  *)
(* SingleThreadDispatcher starts.  A run is bounded by the number of calls *)
(* its clients make.                                                       *)
(***************************************************************************)
SubscribeStep(t, Ts) ==
  \/ \E T \in Ts : hist.subcalls < MaxSubs /\ SubscribeCall(t, T)
  \/ SubscribeLocked(t)

\* The ids a client can pass: those issued so far, and one never issued.
UnsubscribeStep(t) ==
  \/ \E id \in 0..next_id_ : Unsubscribe(t, id)
  \/ \E s \in Slots : HandleUnsubscribe(t, s)

ShutdownStep(t) ==
  \/ hist.sdcalls < MaxShutdowns /\ ShutdownCall(t)
  \/ QueueShutdownStore(t)
  \/ QueueShutdownNotify(t)
  \/ DispatcherShutdownStore(t)
  \/ DispatcherShutdownNotify(t)

\* publish under the Synchronous policy, past the check of the flag.
InlineStep(t, Os) ==
  \/ PublishLock(t)
  \/ \E w \in loc[t].todo, o \in Os : PublishSweepCall(t, w, o)
  \/ PublishSweepReturn(t)

\* publish under any other policy, past the check of the flag.
DeferredStep(t) ==
  \/ PushEnter(t)
  \/ PublishDispatch(t)
  \/ DispatchPush(t)

PublishStep(t, Ts, Os, n) ==
  \/ \E T \in Ts : hist.pubcalls < n /\ PublishCall(t, T)
  \/ InlineStep(t, Os)
  \/ DeferredStep(t)

WorkerStep(w, Os) ==
  \/ RunLoop(w)
  \/ RunEnter(w)
  \/ RunSleep(w)
  \/ PopEnter(w)
  \/ PopSleep(w)
  \/ DrainSnapshot(w)
  \/ \E x \in loc[w].todo, o \in Os : DrainCall(w, x, o)
  \/ DrainDone(w)

(***************************************************************************)
(* Subscribing, unsubscribing and publishing on a bus of either execution  *)
(* policy, with handlers that return.                                      *)
(***************************************************************************)
Next ==
  \/ SubscribeStep("c1", Types)
  \/ UnsubscribeStep("c1")
  \/ PublishStep("c2", Types, {"returns"}, MaxEvents)
  \/ \E w \in Workers : WorkerStep(w, {"returns"})

Spec == Init /\ [][Next]_vars

(***************************************************************************)
(* Two clients that subscribe, unsubscribe and shut the bus down; nothing  *)
(* is published, and the worker of an Asynchronous bus finds no task.      *)
(***************************************************************************)
NextRegistry ==
  \/ \E t \in Clients : SubscribeStep(t, Types)
  \/ \E t \in Clients : UnsubscribeStep(t)
  \/ \E t \in Clients : ShutdownStep(t)
  \/ \E w \in Workers : RunLoop(w) \/ RunEnter(w) \/ RunSleep(w)

SpecRegistry == Init /\ [][NextRegistry]_vars

(***************************************************************************)
(* One client that keeps the handles: it subscribes into a handle that is  *)
(* default-constructed, moves handles, unsubscribes through them, asks     *)
(* whether they are valid, and destroys them.                              *)
(***************************************************************************)
NextHandle ==
  \/ \E T \in Types :
       /\ hist.subcalls < MaxSubs
       /\ hist.subcalls + 1 \in DOMAIN unsubscribe_func_
       /\ unsubscribe_func_[hist.subcalls + 1] = Null
       /\ SubscribeCall("c1", T)
  \/ SubscribeLocked("c1")
  \/ \E s \in Slots : HandleUnsubscribe("c1", s)
  \/ \E d, s \in Slots : MoveConstruct("c1", d, s)
  \/ \E d, s \in Slots : MoveAssign("c1", d, s)
  \/ \E s \in Slots : Destroy("c1", s)
  \/ \E s \in Slots : Valid("c1", s)

SpecHandle == Init /\ [][NextHandle]_vars

(***************************************************************************)
(* A Synchronous bus on which both clients subscribe, unsubscribe and      *)
(* publish.                                                                *)
(***************************************************************************)
InitInline ==
  /\ cfg = [exec |-> "Synchronous", queue |-> UnboundedQueue, bp |-> "BlockProducer",
            disp |-> createDispatcher("Synchronous")]
  /\ pc = [t \in Threads |-> IF t \in Clients THEN "idle" ELSE "none"]
  /\ InitCommon

NextInline ==
  \E t \in Clients :
    \/ SubscribeStep(t, {"A"})
    \/ UnsubscribeStep(t)
    \/ \E T \in {"A"} : hist.pubcalls < MaxPublishes /\ PublishCall(t, T)
    \/ InlineStep(t, {"returns"})

SpecInline == InitInline /\ [][NextInline]_vars

(***************************************************************************)
(* Shutting a bus down while it is subscribed to and published on.         *)
(***************************************************************************)
NextShutdown ==
  \/ SubscribeStep("c1", {"A"})
  \/ ShutdownStep("c1")
  \/ PublishStep("c2", {"A"}, {"returns"}, MaxPublishes)
  \/ Active("c2")
  \/ \E w \in Workers : WorkerStep(w, {"returns"})

SpecShutdown == Init /\ [][NextShutdown]_vars

(***************************************************************************)
(* shutdown() called more than once, by either client, the explicit call   *)
(* and the one ~EventBus makes among them, on a bus that was subscribed to *)
(* and published on.                                                       *)
(***************************************************************************)
NextAgain ==
  \/ SubscribeStep("c1", {"A"})
  \/ \E t \in Clients : hist.sdcalls < MaxShutdowns + 1 /\ ShutdownCall(t)
  \/ \E t \in Clients : \/ QueueShutdownStore(t)
                        \/ QueueShutdownNotify(t)
                        \/ DispatcherShutdownStore(t)
                        \/ DispatcherShutdownNotify(t)
  \/ PublishStep("c2", {"A"}, {"returns"}, MaxEvents)
  \/ Active("c2")
  \/ \E w \in Workers : WorkerStep(w, {"returns"})

SpecAgain == Init /\ [][NextAgain]_vars

(***************************************************************************)
(* A bus of either execution policy whose handlers return or throw.        *)
(***************************************************************************)
NextFault ==
  \/ SubscribeStep("c1", {"A"})
  \/ PublishStep("c2", {"A"}, Outcomes, MaxPublishes)
  \/ \E w \in Workers : WorkerStep(w, Outcomes)

SpecFault == Init /\ [][NextFault]_vars

(***************************************************************************)
(* EventBus<Asynchronous, BoundedQueue<BusQueueN>, DropNewest, A, B>.      *)
(***************************************************************************)
InitBounded ==
  /\ cfg = [exec |-> "Asynchronous", queue |-> BoundedQueue(BusQueueN),
            bp |-> "DropNewest", disp |-> createDispatcher("Asynchronous")]
  /\ pc = [t \in Threads |->
             IF t \in Clients THEN "idle"
             ELSE IF t \in Workers THEN "run_loop" ELSE "none"]
  /\ InitCommon

NextBounded ==
  \/ SubscribeStep("c1", {"A"})
  \/ \E T \in {"A"} : hist.pubcalls < MaxPublishes + BusQueueN /\ PublishCall("c2", T)
  \/ DeferredStep("c2")
  \/ \E w \in Workers : WorkerStep(w, {"returns"})

SpecBounded == InitBounded /\ [][NextBounded]_vars

(***************************************************************************)
(* An Asynchronous bus made with EventBus(), whose SingleThreadDispatcher  *)
(* runs w1, or with EventBus(std::make_unique<ThreadPoolDispatcher<2>>()), *)
(* whose worker_loop runs on w1 and w2.  worker_loop is run with a counter *)
(* active_tasks_ that nothing reads.                                       *)
(***************************************************************************)
\* The threads a dispatcher's constructor starts.
WorkersOf(d) ==
  IF d = "SingleThreadDispatcher" THEN Workers
  ELSE IF d = "ThreadPoolDispatcher" THEN PoolWorkers
  ELSE {}

InitPool ==
  /\ cfg \in {[exec |-> "Asynchronous", queue |-> UnboundedQueue,
                bp |-> "BlockProducer", disp |-> d] :
                d \in {"SingleThreadDispatcher", "ThreadPoolDispatcher"}}
  /\ pc = [t \in Threads |->
             IF t \in Clients THEN "idle"
             ELSE IF t \in WorkersOf(cfg.disp) THEN "run_loop" ELSE "none"]
  /\ InitCommon

NextPool ==
  \/ SubscribeStep("c1", {"A"})
  \/ \E t \in Clients, T \in {"A"} : hist.pubcalls < MaxPublishes /\ PublishCall(t, T)
  \/ \E t \in Clients : DeferredStep(t)
  \/ \E w \in PoolWorkers : WorkerStep(w, {"returns"})

SpecPool == InitPool /\ [][NextPool]_vars

(***************************************************************************)
(* A dispatcher of one of the four classes, used by threads that dispatch  *)
(* units to it and shut it down, more than once.                           *)
(***************************************************************************)
Dispatchers == {"SynchronousDispatcher", "SingleThreadDispatcher",
                "ThreadPoolDispatcher", "ExternalDispatcher"}

InitDispatcher ==
  /\ cfg \in {[exec |-> "none", queue |-> UnboundedQueue, bp |-> "BlockProducer",
                disp |-> d] : d \in Dispatchers}
  /\ pc = [t \in Threads |->
             IF t \in Clients THEN "idle"
             ELSE IF t \in WorkersOf(cfg.disp) THEN "run_loop" ELSE "none"]
  /\ InitCommon

NextDispatcher ==
  \/ \E t \in Clients :
       \/ hist.units < MaxUnits /\ DDispatchCall(t)
       \/ PublishDispatch(t)
       \/ DispatchPush(t)
       \/ hist.sdcalls < MaxShutdowns + 1 /\ DShutdownCall(t)
       \/ DispatcherShutdownStore(t)
       \/ DispatcherShutdownNotify(t)
  \/ \E t \in Threads : UnitReturn(t)
  \/ \E w \in PoolWorkers : RunLoop(w) \/ RunEnter(w) \/ RunSleep(w)

SpecDispatcher == InitDispatcher /\ [][NextDispatcher]_vars

(***************************************************************************)
(* An EventQueue<EventVariant, BoundedQueue<QueueN>, bp>, or the default   *)
(* EventQueue<EventVariant>, used by threads that push, pop and shut it    *)
(* down.                                                                   *)
(***************************************************************************)
InitQueue ==
  /\ cfg \in {[exec |-> "none", queue |-> BoundedQueue(QueueN), bp |-> b,
                disp |-> "none"] : b \in BackpressurePolicies}
           \cup {[exec |-> "none", queue |-> UnboundedQueue, bp |-> "BlockProducer",
                  disp |-> "none"]}
  /\ pc = [t \in Threads |-> IF t \in Clients \cup Workers THEN "idle" ELSE "none"]
  /\ InitCommon

NextQueue ==
  \E t \in Clients \cup Workers :
    \/ hist.events < MaxPushes /\ QPushCall(t)
    \/ PushEnter(t)
    \/ PushSleep(t)
    \/ QPopCall(t)
    \/ PopEnter(t)
    \/ PopSleep(t)
    \/ hist.sdcalls < MaxShutdowns /\ QShutdownCall(t)
    \/ QueueShutdownStore(t)
    \/ QueueShutdownNotify(t)

SpecQueue == InitQueue /\ [][NextQueue]_vars

(***************************************************************************)
(* Properties of delivery.                                                 *)
(***************************************************************************)
Ascending(s) == \A i, j \in DOMAIN s : i < j => s[i] < s[j]

\* The inline sweep of t has called every wrapper it found: publish is about
\* to return Success.
SweepComplete(t) ==
  cfg.exec = "Synchronous" /\ pc[t] = "pub_sweep" /\ loc[t].todo = {}

\* The drain unit of w has called every wrapper of its snapshot.
DrainComplete(w) == pc[w] = "drain_done"

\* C1: under the inline strategy, when publish is about to return Success,
\* the handlers of the subscriptions live for the event's type have each
\* been invoked exactly once, in ascending order of subscription id.
C1_InlineOrder ==
  \A t \in Clients :
    SweepComplete(t) => /\ Range(loc[t].done) = loc[t].live
                        /\ Ascending(loc[t].done)

\* C2: no publish that starts after a subscription was unsubscribed (by id
\* with result true, or through its handle) invokes its handler, inline or
\* deferred; the subscriptions live for the event's type when the handlers
\* are looked up are all invoked.
C2_UnsubscribeEffective ==
  /\ call # NoCall => call.w.owner \notin {g.id : g \in call.e.gone}
  /\ \A t \in Threads :
       (SweepComplete(t) \/ DrainComplete(t)) => loc[t].live \subseteq Range(loc[t].done)

C2_Witness ==
  /\ cfg.exec = "Asynchronous"
  /\ call # NoCall
  /\ \E g \in call.e.gone : g.T = call.e.ptype /\ g.id < call.w.owner
  /\ unsubscribe_func_[1] = Null

\* C3: a handler is invoked only with events published as the type it was
\* subscribed to, by the inline sweep and by the drain unit.
C3_TypeSafety == call # NoCall => call.w.etype = call.e.ptype

C3_Witness ==
  /\ call # NoCall
  /\ \E T \in DOMAIN handlers_ : T # call.e.ptype

\* C4: a publish, subscribe or active call that starts after shutdown() has
\* returned gets BusShutdown, an invalid handle, false; such a call is never
\* found past the check of the flag, where it would make an event, enqueue
\* it or invoke a handler.
C4_ShutdownFinal ==
  /\ (ret.op = "publish" /\ ret.after) => (ret.val = "BusShutdown" /\ ret.ev = 0)
  /\ (ret.op = "subscribe" /\ ret.after) => ~ret.valid
  /\ (ret.op = "active" /\ ret.after) => ~ret.val
  /\ \A t \in Clients : ~loc[t].after

C4_Witness ==
  /\ ret.op = "publish" /\ ret.after /\ ret.val = "BusShutdown"
  /\ handlers_ # Empty
  /\ hist.events > 0

\* C5: with deferred delivery, a handler that throws, a std::exception or
\* anything else, neither ends the worker thread nor keeps the rest of the
\* event's snapshot from being called: when the drain unit is through with
\* an event it has called every wrapper of the snapshot and is on its way
\* back to pop.
C5_FaultIsolated ==
  \A w \in Workers :
    /\ pc[w] # "terminated"
    /\ DrainComplete(w) => Owners(loc[w].snap) = Range(loc[w].done)

\* A handler is invoked for an event after another handler of the same event
\* has thrown, and after a handler of an earlier event has thrown.
C5_Witness ==
  /\ call # NoCall /\ call.prior
  /\ hist.fault # 0 /\ call.e.seq > hist.fault

(***************************************************************************)
(* Properties of the EventQueue.                                           *)
(***************************************************************************)
Seqs(q) == [i \in DOMAIN q |-> q[i].seq]
SleepingProducers == {t \in queue_cv_ : pc[t] = "push_wait"}

\* C6: with a bounded queue and the block policy, a pop that frees space
\* never leaves a producer blocked: a step that takes an element out of the
\* queue while producers sleep in push wakes one of them.
C6_PopWakesProducer ==
  [][(cfg.bp = "BlockProducer" /\ SleepingProducers # {}
        /\ Len(queue_') < Len(queue_))
     => SleepingProducers' # SleepingProducers]_vars

\* C7: with a bounded queue and the block policy, a push that was inside
\* its wait when the queue was shut down returns BusShutdown, and its event
\* is not inserted, also when space has become free.
C7_BlockedPushSeesShutdown ==
  (ret.op = "push" /\ ret.blocked)
    => /\ ret.val = "BusShutdown"
       /\ ret.ev \notin Range(hist.pushed)
       /\ ret.ev \notin Range(Seqs(queue_))

C7_Witness ==
  /\ cfg.bp = "BlockProducer"
  /\ ret.op = "push" /\ ret.blocked /\ ret.val = "BusShutdown"
  /\ hist.popped # Empty /\ Len(queue_) < cfg.queue.capacity

\* C8: with a bounded queue of capacity N and the drop-oldest policy, while
\* nothing has been popped and the queue is not shut down, every push
\* returns Success and the queue holds the last min(k, N) of the k events
\* pushed, in push order.
C8_DropOldestKeepsLast ==
  (cfg.bp = "DropOldest" /\ hist.popped = Empty /\ ~queue_shutdown_)
    => /\ ret.op = "push" => ret.val = "Success"
       /\ Seqs(queue_) = Last(hist.pushed,
                              Min(Len(hist.pushed), cfg.queue.capacity))

C8_Witness ==
  /\ cfg.bp = "DropOldest" /\ hist.popped = Empty /\ ~queue_shutdown_
  /\ ret.op = "push" /\ ret.val = "Success"
  /\ Len(hist.pushed) > cfg.queue.capacity
  /\ Head(queue_).seq # Head(hist.pushed)

C10_CapacityBound == cfg.queue.bounded => Len(queue_) <= cfg.queue.capacity

C10_Witness ==
  /\ cfg.queue.bounded /\ Len(queue_) = cfg.queue.capacity
  /\ ret.op = "push"
  /\ hist.events > cfg.queue.capacity
  /\ hist.popped # Empty

\* C11: without the drop-oldest policy, what pop has returned so far,
\* followed by what is queued, is what push has accepted so far, in push
\* order: pop returns the accepted events in push order, none lost,
\* duplicated or reordered.
C11_QueueFifo ==
  cfg.bp # "DropOldest" => hist.pushed = hist.popped \o Seqs(queue_)

\* A second pop has returned an event while another thread is inside pop
\* and an accepted event is still queued.
C11_Witness ==
  /\ cfg.bp # "DropOldest"
  /\ ret.op = "pop" /\ ret.val # 0 /\ Len(hist.popped) >= 2 /\ queue_ # Empty
  /\ \E t \in Threads : pc[t] \in {"pop_enter", "pop_wait"}

\* C12: once the queue's shutdown flag is set, no push is accepted: every
\* push returns BusShutdown and leaves the queue as it is, whatever the
\* policy and the queue's length; a pop of a queue that holds events returns
\* its head and removes it; pop returns the end-of-stream marker only when
\* the queue is shut down and empty.
C12_QueueShutdown ==
  [][/\ queue_shutdown_ =>
          /\ hist'.pushed = hist.pushed
          /\ ret'.op = "push" => (ret'.val = "BusShutdown" /\ queue_' = queue_)
          /\ (ret'.op = "pop" /\ queue_ # Empty)
               => (ret'.val = Head(queue_).seq /\ queue_' = Tail(queue_))
     /\ (ret'.op = "pop" /\ ret'.val = 0) => (queue_shutdown_ /\ queue_ = Empty)
    ]_vars

\* After shutdown() has returned, a pop has returned a queued event and
\* more are queued.
C12_Witness ==
  /\ hist.sd_returned /\ queue_shutdown_
  /\ ret.op = "pop" /\ ret.val # 0 /\ queue_ # Empty

\* C13: every thread that was inside push or pop when the queue was shut
\* down returns: once every shutdown() call has returned, no thread is left
\* asleep on the queue's condition variable.
C13_ShutdownWakesAll ==
  (queue_shutdown_ /\ \A t \in Threads : pc[t] \notin {"sd_queue_store", "sd_queue_notify"})
    => queue_cv_ = {}

(***************************************************************************)
(* Properties of the registry.                                             *)
(***************************************************************************)
RegisteredIds(h) == UNION {DOMAIN h[ty] : ty \in DOMAIN h}

\* C14: unsubscribe(id) returns true and removes the registration of id,
\* and no other, when id is registered; it returns false and leaves the
\* registry as it is for an id that is not (never issued, or removed
\* before); unsubscribing through a handle removes at most the handle's own
\* registration, also when that registration is gone already.
C14_IdempotentUnsubscribe ==
  [][\A t \in Clients :
       /\ \A id \in 0..next_id_ :
            Unsubscribe(t, id) =>
              IF id \in DOMAIN subscription_map_
              THEN /\ ret'.val
                   /\ DOMAIN subscription_map_' = DOMAIN subscription_map_ \ {id}
                   /\ RegisteredIds(handlers_') = RegisteredIds(handlers_) \ {id}
              ELSE /\ ~ret'.val
                   /\ subscription_map_' = subscription_map_
                   /\ handlers_' = handlers_
       /\ \A s \in Slots :
            HandleUnsubscribe(t, s) =>
              LET own == IF unsubscribe_func_[s] = Null THEN {}
                         ELSE {unsubscribe_func_[s][1]}
              IN /\ DOMAIN subscription_map_' = DOMAIN subscription_map_ \ own
                 /\ RegisteredIds(handlers_') = RegisteredIds(handlers_) \ own
                 /\ unsubscribe_func_'[s] = Null
    ]_vars

\* unsubscribe(id) has returned false on a bus that has lost a registration
\* and holds another.
C14_Witness ==
  /\ ret.op = "unsubscribe" /\ ~ret.val
  /\ hist.gone # {} /\ DOMAIN subscription_map_ # {}

\* C15: an id is a key of subscription_map_ exactly if handlers_ holds a
\* wrapper for it, under the type subscription_map_ gives it and under no
\* other; no type of handlers_ has an empty map.
C15_RegistryConsistent ==
  /\ \A id \in DOMAIN subscription_map_ :
       /\ subscription_map_[id] \in DOMAIN handlers_
       /\ id \in DOMAIN handlers_[subscription_map_[id]]
  /\ \A ty \in DOMAIN handlers_ :
       /\ DOMAIN handlers_[ty] # {}
       /\ \A id \in DOMAIN handlers_[ty] :
            id \in DOMAIN subscription_map_ /\ subscription_map_[id] = ty

\* A registration is left after another was removed, and a shutdown has
\* begun.
C15_Witness ==
  /\ handlers_ # Empty
  /\ hist.gone # {}
  /\ shutdown_

\* C16: a successful subscribe returns an id greater than every id given
\* before on the bus, removed or not.
C16_IdsIncrease ==
  [][(ret'.op = "subscribe" /\ ret'.valid)
       => \A x \in hist.live \cup hist.gone : ret'.id > x.id]_vars

\* A subscribe has returned its id after the registration made before it
\* was removed.
C16_Witness ==
  /\ ret.op = "subscribe" /\ ret.valid /\ ret.id > 0
  /\ hist.gone # {}

(***************************************************************************)
(* Properties of publish.                                                  *)
(***************************************************************************)
ResultCodes == {"Success", "QueueFull", "BusShutdown"}

\* C17: under either execution policy a publish ends by returning a result
\* code to its caller: what a subscribed handler throws never leaves publish.
C17_PublishReturnsCode == ret.op = "publish" => ret.val \in ResultCodes

InlineLabels == {"pub_lock", "pub_sweep"}
DeferredLabels == {"push_enter", "pub_dispatch", "dispatch_push"}
DrainLabels == {"drain_snap", "drain_call", "drain_done"}

\* C18: on an Asynchronous bus with the SingleThreadDispatcher or the
\* ThreadPoolDispatcher, publish never runs the sweep or a drain unit on the
\* caller's thread, and a handler is invoked only by a worker that holds the
\* event; every pushed event has exactly one drain unit scheduled for it once
\* its publisher is past dispatch, and that publish returns Success; the
\* publisher waits for nothing but the two mutexes, which no worker holds
\* while it snapshots or calls handlers.
C18_DeferredNonBlocking ==
  /\ \A t \in Clients : pc[t] \notin InlineLabels \cup DrainLabels
  /\ call # NoCall =>
       \E w \in PoolWorkers : pc[w] \in DrainLabels /\ loc[w].ev = call.e
  /\ hist.dispatched = Len(hist.pushed)
       - Cardinality({t \in Clients : pc[t] \in {"pub_dispatch", "dispatch_push"}})
  /\ hist.dispatched = Len(tasks_) + hist.started
  /\ (ret.op = "publish" /\ ret.ev \in Range(hist.pushed)) => ret.val = "Success"
  /\ \A t \in Clients :
       (pc[t] \in DeferredLabels /\ queue_mutex_ = NoThread /\ tasks_mutex_ = NoThread)
         => ENABLED DeferredStep(t)
  /\ \A w \in PoolWorkers :
       pc[w] \in DrainLabels => (queue_mutex_ # w /\ tasks_mutex_ # w)

\* On a bus with the pool, publish has returned Success for an event that is
\* still queued, with a handler subscribed and no drain unit started.
C18_Witness ==
  /\ pc["w2"] # "none"
  /\ ret.op = "publish" /\ ret.val = "Success"
  /\ ret.ev \in Range(Seqs(queue_))
  /\ handlers_ # Empty
  /\ hist.dispatched = 1 /\ hist.started = 0

IsPrefix(s, t) == Len(s) <= Len(t) /\ s = SubSeq(t, 1, Len(s))
Newest(s) == s[Len(s)]

\* C19: on an Asynchronous bus with the SingleThreadDispatcher, events are
\* popped in the order their pushes completed, and the worker snapshots and
\* invokes handlers only for the event popped last: every invocation for an
\* event is over before the next event is popped, and so before any
\* invocation for an event pushed later.
C19_DeferredOrder ==
  cfg.exec = "Asynchronous" =>
    /\ IsPrefix(hist.popped, hist.pushed)
    /\ call # NoCall => call.e.seq = Newest(hist.popped)
    /\ \A w \in Workers :
         pc[w] \in DrainLabels => loc[w].ev.seq = Newest(hist.popped)

\* A handler is invoked for the second event pushed, after a handler of the
\* first one was invoked and threw.
C19_Witness ==
  /\ cfg.exec = "Asynchronous"
  /\ Len(hist.pushed) = 2
  /\ call # NoCall /\ call.e.seq = hist.pushed[2]
  /\ hist.fault = hist.pushed[1]

NoDuplicates(s) == \A i, j \in DOMAIN s : i # j => s[i] # s[j]

\* What a drain unit holds of its event: the event was popped, each wrapper
\* of the snapshot is either still to call or was called once.
DrainUnitSound(w) ==
  /\ loc[w].ev.seq \in Range(hist.popped)
  /\ NoDuplicates(loc[w].done)
  /\ Range(loc[w].done) \cap Owners(loc[w].todo) = {}
  /\ Range(loc[w].done) \cup Owners(loc[w].todo) = Owners(loc[w].snap)

\* C20: with the drain units of a pool running at once, the events pushed
\* are those popped, once each and in order, followed by those still queued;
\* no two drain units hold the same event; a drain unit calls each wrapper of
\* its event's snapshot once, and lets go of the event only when all of them
\* were called.
C20_OverlappingDrains ==
  /\ [](/\ hist.pushed = hist.popped \o Seqs(queue_)
        /\ NoDuplicates(hist.popped)
        /\ \A w, u \in PoolWorkers :
             (w # u /\ pc[w] \in DrainLabels /\ pc[u] \in DrainLabels)
               => loc[w].ev.seq # loc[u].ev.seq
        /\ \A w \in PoolWorkers : pc[w] \in DrainLabels => DrainUnitSound(w)
        /\ \A w \in PoolWorkers :
             DrainComplete(w) => Range(loc[w].done) = Owners(loc[w].snap))
  /\ [][\A w \in PoolWorkers :
          (pc[w] \in DrainLabels /\ pc'[w] \notin DrainLabels) => DrainComplete(w)]_vars

\* Two drain units are each through with a different event, whose handlers
\* they have called.
C20_Witness ==
  /\ \A w \in PoolWorkers : DrainComplete(w) /\ loc[w].done # Empty
  /\ loc["w1"].ev.seq # loc["w2"].ev.seq

(***************************************************************************)
(* Properties of the Subscription handle.                                  *)
(***************************************************************************)
GoneIds == {g.id : g \in hist.gone}
Issued == 0..(next_id_ - 1)
BoundTo(id) == {s \in DOMAIN unsubscribe_func_ : unsubscribe_func_[s] = <<id>>}
Own(s) == IF unsubscribe_func_[s] = Null THEN {} ELSE {unsubscribe_func_[s][1]}

\* C21: over any sequence of moves, unsubscribe() calls and destructions, a
\* registration's closure has been invoked exactly when no handle is bound
\* to it any more, and its registration is there until then; a bound handle
\* that unsubscribes, is destroyed or is assigned to invokes its closure for
\* the first time, an unbound one does nothing; unsubscribe() leaves the
\* handle unbound, and valid() is true exactly of a handle whose closure was
\* not invoked yet.
C21_HandleDeregistersOnce ==
  /\ [](\A id \in Issued :
          /\ id \in GoneIds <=> BoundTo(id) = {}
          /\ id \in GoneIds <=> id \notin DOMAIN subscription_map_)
  /\ [][\A t \in Clients, s \in Slots :
          /\ (\/ HandleUnsubscribe(t, s)
              \/ Destroy(t, s)
              \/ \E x \in Slots \ {s} : MoveAssign(t, s, x))
               => IF unsubscribe_func_[s] = Null
                  THEN /\ handlers_' = handlers_
                       /\ subscription_map_' = subscription_map_
                       /\ hist'.gone = hist.gone
                  ELSE /\ Own(s) \cap GoneIds = {}
                       /\ {g.id : g \in hist'.gone} = GoneIds \cup Own(s)
          /\ HandleUnsubscribe(t, s) => unsubscribe_func_'[s] = Null
          /\ Valid(t, s) => (ret'.val <=> Own(s) \cap (Issued \ GoneIds) # {})]_vars

\* unsubscribe() on an unbound handle has done nothing, after a closure was
\* invoked; another handle is still bound, and its registration is there.
C21_Witness ==
  /\ ret.op = "handle_unsubscribe" /\ ~ret.ran
  /\ hist.gone # {}
  /\ \E s \in DOMAIN unsubscribe_func_ : Own(s) \cap DOMAIN subscription_map_ # {}

\* C22: a move leaves the source unbound and the destination bound to what
\* the source was bound to, and no other handle changes; the move
\* constructor leaves the registry as it is, the move assignment takes out of
\* it the registration the destination was bound to and no other;
\* self-assignment changes nothing; no two handles are bound to the same
\* registration.
C22_HandleMoves ==
  /\ [](\A s, u \in DOMAIN unsubscribe_func_ :
          (s # u /\ unsubscribe_func_[s] # Null)
            => unsubscribe_func_[s] # unsubscribe_func_[u])
  /\ [][\A t \in Clients, d, s \in Slots :
          /\ MoveConstruct(t, d, s) =>
               /\ unsubscribe_func_'[s] = Null
               /\ unsubscribe_func_'[d] = unsubscribe_func_[s]
               /\ \A x \in DOMAIN unsubscribe_func_ \ {s} :
                    unsubscribe_func_'[x] = unsubscribe_func_[x]
               /\ handlers_' = handlers_
               /\ subscription_map_' = subscription_map_
          /\ (MoveAssign(t, d, s) /\ d # s) =>
               /\ unsubscribe_func_'[s] = Null
               /\ unsubscribe_func_'[d] = unsubscribe_func_[s]
               /\ \A x \in DOMAIN unsubscribe_func_ \ {d, s} :
                    unsubscribe_func_'[x] = unsubscribe_func_[x]
               /\ DOMAIN subscription_map_' = DOMAIN subscription_map_ \ Own(d)
               /\ RegisteredIds(handlers_') = RegisteredIds(handlers_) \ Own(d)
          /\ MoveAssign(t, s, s) =>
               /\ unsubscribe_func_' = unsubscribe_func_
               /\ handlers_' = handlers_
               /\ subscription_map_' = subscription_map_]_vars

\* A bound handle was assigned to from another bound handle: its own
\* registration is gone and it is bound to the other's.
C22_Witness ==
  /\ ret.op = "move_assign" /\ ret.ran
  /\ \E s \in DOMAIN unsubscribe_func_ : unsubscribe_func_[s] # Null
  /\ Cardinality(DOMAIN subscription_map_) = 1

(***************************************************************************)
(* Properties of shutdown.                                                 *)
(***************************************************************************)
ShutdownLabels == {"sd_queue_store", "sd_queue_notify", "sd_disp_store", "sd_disp_notify"}
Flags == <<shutdown_, queue_shutdown_, disp_shutdown_>>

\* t takes a step of shutdown().
ShutdownMoves(t) ==
  /\ pc'[t] # pc[t]
  /\ pc[t] \in ShutdownLabels \/ pc'[t] \in ShutdownLabels

\* C23: when a shutdown() returns the three flags are set, and a flag that
\* is set stays set; a step of a shutdown() made after one has returned
\* changes no flag, and no step of shutdown() touches the registry, the
\* queue's events or the dispatcher's tasks; shutdown() ends by returning;
\* active() returns the negation of the flag, so never true after false.
C23_ShutdownIdempotent ==
  /\ [](/\ ret.op = "shutdown" => Flags = <<TRUE, TRUE, TRUE>>
        /\ ret.op = "active" => ret.val = ~shutdown_
        /\ \A t \in Clients : pc[t] # "terminated")
  /\ [][/\ shutdown_ => shutdown_'
        /\ queue_shutdown_ => queue_shutdown_'
        /\ disp_shutdown_ => disp_shutdown_'
        /\ \A t \in Clients :
             ShutdownMoves(t) =>
               /\ UNCHANGED <<handlers_, subscription_map_, next_id_, queue_, tasks_>>
               /\ hist.sd_returned => UNCHANGED Flags]_vars

\* Two calls of shutdown() have returned on a bus that has a registration.
C23_Witness ==
  /\ ret.op = "shutdown"
  /\ hist.sdcalls = 2
  /\ \A t \in Clients : Idle(t)
  /\ handlers_ # Empty

\* C24: a handler is invoked only while a handle is bound to its
\* registration: once Subscription::unsubscribe() or the destructor has
\* returned, the handler receives no event, also when a drain unit is
\* delivering one at that moment.
C24_SilentAfterUnsubscribe == call # NoCall => BoundTo(call.w.owner) # {}

(***************************************************************************)
(* Properties of the dispatchers.                                          *)
(***************************************************************************)
\* The units being executed, and the threads that execute one.
Running == {t \in Threads : pc[t] = "unit_run"}
RunningUnits == {loc[t].arg : t \in Running}

\* t takes a step of the dispatcher's shutdown().
DispatcherShutdownMoves(t) ==
  /\ pc'[t] # pc[t]
  /\ pc[t] \in {"sd_disp_store", "sd_disp_notify"}
       \/ pc'[t] \in {"sd_disp_store", "sd_disp_notify"}

\* C25: for each of the four dispatchers, a unit whose dispatch call starts
\* after a shutdown() has returned is never put into tasks_, handed to the
\* executor callback or executed, and its dispatch returns without accepting
\* it; the flag stays set, and a step of a shutdown() made after one has
\* returned changes neither the flag nor tasks_.
C25_DispatcherStopsAccepting ==
  /\ [](/\ hist.late \cap (Range(hist.enq) \cup Range(hist.deq)
                            \cup Range(tasks_) \cup RunningUnits) = {}
        /\ \A t \in Clients :
             (loc[t].caller = "dispatch" /\ loc[t].after) => pc[t] = "pub_dispatch"
        /\ (ret.op = "dispatch" /\ ret.after) => ~ret.accepted)
  /\ [][/\ disp_shutdown_ => disp_shutdown_'
        /\ \A t \in Clients :
             (DispatcherShutdownMoves(t) /\ hist.sd_returned)
               => UNCHANGED <<disp_shutdown_, tasks_>>]_vars

\* An ExternalDispatcher that had handed a unit to its executor was shut
\* down twice, and a dispatch made after that has returned.
C25_Witness ==
  /\ cfg.disp = "ExternalDispatcher"
  /\ ret.op = "dispatch" /\ ret.after /\ ~ret.accepted
  /\ hist.enq # Empty
  /\ hist.sdcalls = 2

\* C26: the SingleThreadDispatcher executes units on its worker only, one
\* at a time: the worker takes a unit from tasks_ when no unit is being
\* executed, the units taken so far are the first ones enqueued, in the
\* order of their enqueueing, and the unit being executed is the last taken.
C26_WorkerKeepsOrder ==
  /\ [](cfg.disp = "SingleThreadDispatcher" =>
          /\ hist.enq = hist.deq \o tasks_
          /\ Running \subseteq Workers
          /\ Running # {} => RunningUnits = {Newest(hist.deq)})
  /\ [][(cfg.disp = "SingleThreadDispatcher" /\ hist'.deq # hist.deq)
          => /\ Running = {}
             /\ hist'.deq = Append(hist.deq, hist.enq[Len(hist.deq) + 1])]_vars

\* The worker executes the second unit taken; the units were enqueued in
\* the reverse of the order of their dispatch calls.
C26_Witness ==
  /\ cfg.disp = "SingleThreadDispatcher"
  /\ hist.enq = <<2, 1>>
  /\ hist.deq = <<2, 1>>
  /\ Running = {"w1"}

\* C27: when shutdown() of the SingleThreadDispatcher has returned, its
\* worker thread has terminated, so that no unit is being executed then or
\* later.
C27_WorkerJoined ==
  (cfg.disp = "SingleThreadDispatcher" /\ hist.sd_returned) => Running = {}

\* C28: the ThreadPoolDispatcher executes units on its workers only, each
\* worker one unit at a time, so no more units at once than it has workers;
\* a unit leaves tasks_ when a worker takes it, so that no unit is taken or
\* executed twice, and no two workers execute the same unit.
C28_PoolBounded ==
  cfg.disp = "ThreadPoolDispatcher" =>
    /\ Running \subseteq PoolWorkers
    /\ Cardinality(RunningUnits) = Cardinality(Running)
    /\ Cardinality(RunningUnits) <= Cardinality(PoolWorkers)
    /\ RunningUnits \subseteq Range(hist.deq)
    /\ NoDuplicates(hist.deq)
    /\ hist.enq = hist.deq \o tasks_

\* The two workers of the pool execute a unit each.
C28_Witness ==
  /\ cfg.disp = "ThreadPoolDispatcher"
  /\ Running = PoolWorkers
  /\ RunningUnits = {1, 2}

\* C29: once shutdown() of the bus has returned, handlers_ and
\* subscription_map_ hold no registration.
C29_RegistryEmptyAfterShutdown ==
  hist.sd_returned => (handlers_ = Empty /\ subscription_map_ = Empty)

(***************************************************************************)
(* Properties of the inline sweep.                                         *)
(***************************************************************************)
Sweeping == {t \in Clients : pc[t] = "pub_sweep"}

\* C30: under the Synchronous policy the thread that sweeps holds
\* handlers_mutex_ from the lookup to the return, so that at most one thread
\* sweeps, a handler is invoked only by the thread that holds the mutex, and
\* no step changes the registry while a sweep is under way; when the sweep
\* is through, the handlers called are those registered for the type, each
\* called once.
C30_SweepAtomic ==
  /\ [](/\ \A t \in Sweeping : handlers_mutex_ = t
        /\ call # NoCall =>
             \E t \in Sweeping : handlers_mutex_ = t /\ loc[t].ev = call.e
        /\ \A t \in Sweeping :
             /\ Owners(loc[t].snap) = Owners(MatchingHandlers(handlers_, loc[t].ev))
             /\ NoDuplicates(loc[t].done)
             /\ SweepComplete(t) => Range(loc[t].done) = Owners(loc[t].snap))
  /\ [][Sweeping # {} => UNCHANGED <<handlers_, subscription_map_>>]_vars

\* A sweep has called a handler while the other client is inside subscribe,
\* at the mutex.
C30_Witness ==
  \E t, u \in Clients :
    /\ pc[t] = "pub_sweep" /\ loc[t].done # Empty
    /\ pc[u] = "sub_lock"

(***************************************************************************)
(* The default Asynchronous bus, EventBus<Asynchronous, UnboundedQueue,    *)
(* BlockProducer, A, B> made with EventBus(): c1 subscribes, c2 publishes, *)
(* w1 runs the SingleThreadDispatcher's loop.  The bus is not shut down    *)
(* and the handlers return.  The worker thread is scheduled: a step it can *)
(* take is taken in the end.                                               *)
(***************************************************************************)
InitDeferred ==
  /\ cfg = [exec |-> "Asynchronous", queue |-> UnboundedQueue, bp |-> "BlockProducer",
            disp |-> createDispatcher("Asynchronous")]
  /\ pc = [t \in Threads |->
             IF t \in Clients THEN "idle"
             ELSE IF t \in Workers THEN "run_loop" ELSE "none"]
  /\ InitCommon

NextDeferred ==
  \/ SubscribeStep("c1", {"A"})
  \/ \E T \in {"A"} : hist.pubcalls < MaxPublishes /\ PublishCall("c2", T)
  \/ DeferredStep("c2")
  \/ \E w \in Workers : WorkerStep(w, {"returns"})

SpecDeferred ==
  /\ InitDeferred
  /\ [][NextDeferred]_vars
  /\ WF_vars(\E w \in Workers : WorkerStep(w, {"returns"}))

(***************************************************************************)
(* Properties of deferred delivery by the dedicated worker.                *)
(***************************************************************************)
\* The events whose publish has returned Success: pushed, and no longer in
\* the hands of a publisher.
Accepted == {n \in Range(hist.pushed) : \A t \in Clients : loc[t].ev.seq # n}

\* The event n was popped, and the drain unit that popped it has no handler
\* of its snapshot left to call.
Delivered(n) ==
  /\ n \in Range(hist.popped)
  /\ \A w \in Workers : loc[w].ev.seq = n => DrainComplete(w)

\* C35: on the default Asynchronous bus that is not shut down and whose
\* handlers return, every event whose publish returned Success is popped in
\* the end, once, and the drain unit that popped it gets through with it;
\* the handlers it has called by then are those registered for the event's
\* type when it took its snapshot, each called once.
C35_DeferredDelivery ==
  /\ \A n \in 1..MaxPublishes : [](n \in Accepted => <>Delivered(n))
  /\ [](/\ NoDuplicates(hist.popped)
        /\ \A w \in Workers :
             DrainComplete(w) => /\ Range(loc[w].done) = loc[w].live
                                 /\ NoDuplicates(loc[w].done))

\* The worker is through with the second event and has called the one
\* handler subscribed; the task of the second publish is still pending.
C35_Witness ==
  /\ Delivered(2)
  /\ \E w \in Workers : loc[w].ev.seq = 2
  /\ \E w \in Workers : loc[w].done = <<0>>
  /\ hist.subcalls = 1
  /\ Len(tasks_) = 1

\* C40: on the default Asynchronous bus that is not shut down, at most one
\* drain unit is ever started; the tasks pending in tasks_ are drain units,
\* as many as publishes have returned Success less the one started; once a
\* unit has started no step takes a task out of tasks_.
C40_PendingTasks ==
  /\ [](/\ hist.started <= 1
        /\ Len(tasks_) = hist.dispatched - hist.started
        /\ Range(tasks_) \subseteq {ProcessEvents}
        /\ hist.dispatched = Cardinality(Accepted))
  /\ [][hist.started = 1 => IsPrefix(tasks_, tasks_')]_vars

\* The one drain unit sleeps in pop, having delivered two events; the task
\* of the second publish is still pending.
C40_Witness ==
  /\ hist.started = 1
  /\ tasks_ = <<ProcessEvents>>
  /\ hist.popped = <<1, 2>>
  /\ \E w \in Workers : pc[w] = "pop_wait" /\ w \in queue_cv_

(***************************************************************************)
(* The dispatchers again, with every thread scheduled: a step that a       *)
(* thread can take, it takes in the end.                                   *)
(***************************************************************************)
\* The steps of a thread that uses, or is a worker of, a dispatcher.
DispatcherThread(t) ==
  \/ PublishDispatch(t)
  \/ DispatchPush(t)
  \/ DispatcherShutdownStore(t)
  \/ DispatcherShutdownNotify(t)
  \/ UnitReturn(t)
  \/ RunLoop(t)
  \/ RunEnter(t)
  \/ RunSleep(t)

SpecDispatcherFair ==
  /\ InitDispatcher
  /\ [][NextDispatcher]_vars
  /\ \A t \in Threads : WF_vars(DispatcherThread(t))

\* The workers that have not left their loop.
InLoop == {w \in WorkersOf(cfg.disp) : pc[w] # "run_exit"}

\* C37: once a shutdown() of a SingleThreadDispatcher or ThreadPoolDispatcher
\* has returned, every worker leaves its loop in the end, the units that run
\* returning, however the store and the notification of shutdown() fall
\* between a worker's check of the predicate and its going to sleep.
C37_WorkersLeave == [](hist.sd_returned => <>(InLoop = {}))

(***************************************************************************)
(* Shutting a bus down while it is subscribed to and published on, with    *)
(* every thread scheduled: a call that was started goes on as long as it   *)
(* can, and so does the worker.                                            *)
(***************************************************************************)
\* The steps by which a client goes on with the call it is in.
ClientGoesOn(t) ==
  \/ SubscribeLocked(t)
  \/ InlineStep(t, {"returns"})
  \/ DeferredStep(t)
  \/ QueueShutdownStore(t)
  \/ QueueShutdownNotify(t)
  \/ DispatcherShutdownStore(t)
  \/ DispatcherShutdownNotify(t)

SpecShutdownFair ==
  /\ Init
  /\ [][NextShutdown]_vars
  /\ \A t \in Clients : WF_vars(ClientGoesOn(t))
  /\ \A w \in Workers : WF_vars(WorkerStep(w, {"returns"}))

PopLabels == {"pop_enter", "pop_block", "pop_wait"}

\* The workers inside a drain unit.
Draining == {w \in Workers : pc[w] \in PopLabels \cup DrainLabels}

\* C33: a drain unit returns only from a pop that found the queue shut down
\* and empty, so never while the queue is not shut down; and once the queue
\* is shut down, every drain unit that runs returns in the end, the
\* handlers it calls returning.
C33_DrainUnitTerminates ==
  /\ [][\A w \in Draining :
          w \notin Draining' => (queue_shutdown_ /\ queue_ = Empty)]_vars
  /\ [](queue_shutdown_ => <>(Draining = {}))

(***************************************************************************)
(* An Asynchronous bus made with                                           *)
(* EventBus(std::make_unique<SynchronousDispatcher>()): dispatch runs the  *)
(* drain unit on the thread of publish.  c1 subscribes and may shut the    *)
(* bus down, c2 publishes.  A call that was started goes on as long as it  *)
(* can.                                                                    *)
(***************************************************************************)
InitCallerDrain ==
  /\ cfg = [exec |-> "Asynchronous", queue |-> UnboundedQueue, bp |-> "BlockProducer",
            disp |-> "SynchronousDispatcher"]
  /\ pc = [t \in Threads |-> IF t \in Clients THEN "idle" ELSE "none"]
  /\ InitCommon

\* process_events on the thread t.
DrainStep(t) ==
  \/ PopEnter(t)
  \/ PopSleep(t)
  \/ DrainSnapshot(t)
  \/ \E x \in loc[t].todo : DrainCall(t, x, "returns")
  \/ DrainDone(t)

NextCallerDrain ==
  \/ SubscribeStep("c1", Types)
  \/ hist.sdcalls < MaxShutdowns /\ ShutdownCall("c1")
  \/ QueueShutdownStore("c1")
  \/ QueueShutdownNotify("c1")
  \/ DispatcherShutdownStore("c1")
  \/ \E T \in Types : hist.pubcalls < MaxPublishes /\ PublishCall("c2", T)
  \/ PushEnter("c2")
  \/ PublishDispatch("c2")
  \/ DrainStep("c2")

SpecCallerDrain ==
  /\ InitCallerDrain
  /\ [][NextCallerDrain]_vars
  /\ \A t \in Clients : WF_vars(ClientGoesOn(t) \/ DrainStep(t))

\* C36: on an Asynchronous bus whose dispatcher runs the drain unit on the
\* calling thread, a publish that has pushed its event returns in the end,
\* whether or not the bus is ever shut down.
C36_PublishReturns == \A t \in Clients : pc[t] = "pub_dispatch" ~> Idle(t)

(***************************************************************************)
(* The life of a default Asynchronous bus in the hands of one thread: c1   *)
(* subscribes, publishes, may call shutdown(), destroys the bus, and lets  *)
(* go of the handles it got, before or after that.  No call is made on a   *)
(* bus that is destroyed, except through a handle.  w1 is the worker.      *)
(***************************************************************************)
NextTeardown ==
  \/ ~hist.destroyed /\ SubscribeStep("c1", {"A"})
  \/ \E T \in {"A"} :
       ~hist.destroyed /\ hist.pubcalls < MaxPublishes /\ PublishCall("c1", T)
  \/ DeferredStep("c1")
  \/ ~hist.destroyed /\ hist.sdcalls < MaxShutdowns /\ ShutdownCall("c1")
  \/ ~hist.destroyed /\ DestructorCall("c1")
  \/ QueueShutdownStore("c1")
  \/ QueueShutdownNotify("c1")
  \/ DispatcherShutdownStore("c1")
  \/ DispatcherShutdownNotify("c1")
  \/ DestroyMembers("c1")
  \/ Join("c1")
  \/ \E s \in Slots :
       (~hist.destroyed \/ unsubscribe_func_[s] = Null) /\ HandleUnsubscribe("c1", s)
  \/ \E s \in Slots : ReleaseAfterFree("c1", s)
  \/ \E w \in Workers :
       \/ RunLoop(w)
       \/ RunEnter(w)
       \/ RunSleep(w)
       \/ ~hist.destroyed /\ (PopEnter(w) \/ PopSleep(w) \/ DrainSnapshot(w))
       \/ \E x \in loc[w].todo : DrainCall(w, x, "returns")
       \/ DrainDone(w)
       \/ UseAfterFree(w)

SpecTeardown == InitDeferred /\ [][NextTeardown]_vars

(***************************************************************************)
(* Properties of shutting down and destroying the bus.                     *)
(***************************************************************************)
\* C34: the thread that publishes being the one that shuts the bus down,
\* every event pushed was accepted before shutdown(); when the worker has
\* left its loop, and so the last drain unit has returned, each of them was
\* popped by a drain unit.
C34_ShutdownDrains ==
  (\A w \in Workers : pc[w] = "run_exit") => Range(hist.pushed) \subseteq Range(hist.popped)

\* C38: no step of a drain unit uses the queue, the registry or its mutex
\* once ~EventBus has destroyed them.
C38_SafeTeardown == \A w \in Workers : pc[w] # "undefined"

\* C39: letting go of a handle, by unsubscribe() or by its destructor, uses
\* nothing of the bus once the bus is destroyed.
C39_ReleaseAfterBus == \A t \in Clients : pc[t] # "undefined"

(***************************************************************************)
(* A bus of either execution policy whose handlers return or call back     *)
(* into the bus: c1 subscribes and unsubscribes, c2 publishes, w1 is the   *)
(* worker of an Asynchronous bus.                                          *)
(***************************************************************************)
\* The threads that invoke handlers.
Invokers == {"c2"} \cup Workers

NextReentrant ==
  \/ SubscribeStep("c1", {"A"})
  \/ \E id \in 0..next_id_ : Unsubscribe("c1", id)
  \/ PublishStep("c2", {"A"}, {"returns"}, MaxEvents)
  \/ \E w \in Workers : WorkerStep(w, {"returns"})
  \/ \E t \in Invokers, op \in Reentries : \E x \in loc[t].todo :
       /\ op = "subscribe" => hist.subcalls < MaxSubs
       /\ op = "publish" => hist.pubcalls < MaxPublishes
       /\ HandlerEnters(t, x, op)
  \/ \E t \in Invokers : HandlerStep(t)

SpecReentrant == Init /\ [][NextReentrant]_vars

(***************************************************************************)
(* Properties of handlers that call back into the bus.                     *)
(***************************************************************************)
\* The threads inside a handler that has made a call on the bus.
Reentered == {t \in Invokers : pc[t] \in HandlerLabels}

C32_InlineReentrancy ==
  /\ [](cfg.exec = "Synchronous" =>
          \A t \in Reentered : handlers_mutex_ = t /\ ~ENABLED HandlerStep(t))
  /\ [][cfg.exec = "Synchronous" =>
          \A t \in Reentered : pc'[t] = pc[t] /\ handlers_mutex_' = t]_vars

\* A handler called by the sweep of c2 has called unsubscribe; c1, inside
\* subscribe, waits for the mutex as well.
C32_Witness ==
  /\ cfg.exec = "Synchronous"
  /\ pc["c2"] = "handler_unsubscribe"
  /\ pc["c1"] = "sub_lock"

====
